---- MODULE Spec2Model ----
(***************************************************************************)
(* Iterator adaptors of grabbag::iter: Tee, GroupBy / Group,               *)
(* CartesianProduct, PacingWalk, TakeExactly, skip_exactly, RoundRobin /   *)
(* RoundRobinLongest, Intersperse, PadTailTo, ZipLongest, Accumulate and   *)
(* Stride, each as a state machine driven by its consumer's calls.         *)
(*                                                                         *)
(* Option<T> is a sequence of length at most one: None is << >> and        *)
(* Some(x) is << x >>.  An upstream iterator over a finite collection is   *)
(* the sequence of the elements it has not yielded yet.                    *)
(***************************************************************************)
EXTENDS Integers, Sequences, FiniteSets, TLC

VARIABLES
    \* ---- Tee (src/src/iter/tee.rs)
    teeSrc,         \* the sequence tee() was called on (never changes)
    teeIter,        \* TeeState.iter: what the upstream has not yielded yet
    iter_next,      \* TeeState.iter_next
    buffer,         \* TeeState.buffer
    this_next,      \* Tee.this_next of each of the two handles
    teeYielded,     \* what each handle's next() has returned so far
    teeExhausted,   \* whether a handle's next() has returned None
    teePanic,       \* "none", or the panic a call ended with
    teeBorrow,      \* the RefMut borrows of the RefCell<TeeState> now alive
    teeActive,      \* None, or Some(h): next() of handle h is inside iter.next()
    teeHint         \* None, or Some(<<h, hint>>): the latest call was size_hint() of h

teeVars == <<teeSrc, teeIter, iter_next, buffer, this_next, teeYielded,
             teeExhausted, teePanic, teeBorrow, teeActive, teeHint>>

VARIABLES
    \* ---- GroupBy / Group (src/src/iter/group_by.rs)
    gbSrc,          \* the sequence group_by() was called on (never changes)
    gbIter,         \* GroupByShared.iter: what the upstream has not yielded yet
    last_group,     \* GroupByShared.last_group
    push_back,      \* GroupByShared.push_back: None or Some(<<g, e>>)
    groups,         \* the Group handles GroupBy::next has returned, in order
    gbKeys,         \* the keys GroupBy::next has returned, in order
    gbOuterDone,    \* whether GroupBy::next has returned None
    grpSeed,        \* per Group: the element it was constructed with
    grpYielded,     \* per Group: what its next() has returned so far
    grpExhausted,   \* per Group: whether its next() has returned None
    gbLast,         \* the latest call: 0 is GroupBy::next, k is next() of Group k
    gbAbandoned,    \* GroupBy::next was called before the latest Group reported exhaustion
    gbStale,        \* a Group other than the latest was pulled
    gbRepulled,     \* a Group was pulled again after it reported exhaustion
    gbPanic,        \* "none", or the panic a call ended with
    gbBorrow,       \* the RefMut borrows of the RefCell<GroupByShared> now alive
    gbActive        \* None, or Some([who, last_g]): a next() is inside a call of
                    \* the upstream or of the group function; who is 0 for
                    \* GroupBy and k for Group k, last_g what GroupBy::next
                    \* took out of last_group

gbVars == <<gbSrc, gbIter, last_group, push_back, groups, gbKeys, gbOuterDone,
            grpSeed, grpYielded, grpExhausted, gbLast, gbAbandoned, gbStale,
            gbRepulled, gbPanic, gbBorrow, gbActive>>

VARIABLES
    \* ---- CartesianProduct (src/src/iter/cartesian_product.rs)
    cpLeftSrc,      \* the left sequence as passed at construction (never changes)
    cpRightSrc,     \* the right sequence as passed at construction (never changes)
    left,           \* CartesianProduct.left: what it has not yielded yet
    right,          \* CartesianProduct.right
    right_checkpoint, \* CartesianProduct.right_checkpoint
    left_value,     \* CartesianProduct.left_value
    cpYielded,      \* the pairs next() has returned so far
    cpExhausted,    \* whether next() has returned None
    cpPulls,        \* how many times the latest next() called left.next()
    cpHint          \* None, or Some(hint): the latest call was size_hint()

cpVars == <<cpLeftSrc, cpRightSrc, left, right, right_checkpoint, left_value,
            cpYielded, cpExhausted, cpPulls, cpHint>>

VARIABLES
    \* ---- PacingWalk (src/src/iter/pacing_walk.rs)
    pwLen,          \* iter.indexable(): the length of the random-access input
    start_at,       \* PacingWalk.start_at
    pos,            \* PacingWalk.pos
    pwYielded,      \* the indices whose elements next() has returned so far
    pwExhausted     \* whether next() has returned None

pwVars == <<pwLen, start_at, pos, pwYielded, pwExhausted>>

VARIABLES
    \* ---- TakeExactly (src/src/iter/take_exactly.rs)
    teSrc,          \* the sequence take_exactly() was called on (never changes)
    teN,            \* the n take_exactly() was called with (never changes)
    teIter,         \* TakeExactly.iter: what the upstream has not yielded yet
    teLeft,         \* TakeExactly.left
    teYielded,      \* what next() has returned so far
    teExhausted,    \* whether next() has returned None
    tePanic         \* "none", or the panic a call ended with

teVars == <<teSrc, teN, teIter, teLeft, teYielded, teExhausted, tePanic>>

VARIABLES
    \* ---- skip_exactly (src/src/iter/skip_exactly.rs)
    seSrc,          \* the sequence of the iterator skip_exactly() is called on
    seN,            \* the n skip_exactly() is called with
    seIter,         \* self: what the iterator has not yielded yet
    seCalled,       \* whether skip_exactly() has been called
    seSkipped,      \* the elements skip_exactly() has consumed
    sePanic,        \* "none", or the panic the call ended with
    seYielded,      \* what next() of the returned iterator has returned so far
    seExhausted     \* whether next() of the returned iterator has returned None

seVars == <<seSrc, seN, seIter, seCalled, seSkipped, sePanic, seYielded,
            seExhausted>>

VARIABLES
    \* ---- RoundRobin / RoundRobinLongest (src/src/iter/round_robin.rs)
    rrA,            \* the sequence of the first input (never changes)
    rrB,            \* the sequence of the second input (never changes)
    it0,            \* it0: what the first input has not yielded yet
    it1,            \* it1: what the second input has not yielded yet
    phase,          \* phase
    fused,          \* RoundRobinLongest.fused (FALSE throughout for RoundRobin)
    rrYielded,      \* what next() has returned so far
    rrExhausted     \* whether next() has returned None

rrVars == <<rrA, rrB, it0, it1, phase, fused, rrYielded, rrExhausted>>

VARIABLES
    \* ---- Intersperse (src/src/iter/intersperse.rs)
    isSrc,          \* the sequence intersperse() was called on (never changes)
    isIter,         \* Intersperse.iter: what the upstream has not yielded yet
    look_ahead,     \* Intersperse.look_ahead
    inject,         \* Intersperse.inject
    next_is_inject, \* Intersperse.next_is_inject
    isYielded,      \* what next() has returned so far, each value with its
                    \* origin: <<"elem", e>> or <<"inject", x>>
    isExhausted,    \* whether next() has returned None
    isIdxed         \* None, or Some(<<i, r>>): the latest call was idx(i), returning r

isVars == <<isSrc, isIter, look_ahead, inject, next_is_inject, isYielded,
            isExhausted, isIdxed>>

VARIABLES
    \* ---- PadTailTo (src/src/iter/pad_tail_to.rs)
    ptSrc,          \* the sequence pad_tail_to() was called on (never changes)
    ptIter,         \* PadTailTo.iter: what the upstream has not yielded yet
    ptMin,          \* PadTailTo.min
    ptPos,          \* PadTailTo.pos
    ptYielded,      \* what next() has returned so far, each value with its
                    \* origin: <<"elem", e>> or <<"filler", i>> for filler(i)
    ptExhausted     \* whether next() has returned None

ptVars == <<ptSrc, ptIter, ptMin, ptPos, ptYielded, ptExhausted>>

VARIABLES
    \* ---- ZipLongest (src/src/iter/zip_longest.rs)
    zlA,            \* the sequence zip_longest() was called on (never changes)
    zlB,            \* the sequence passed as right (never changes)
    zlLeft,         \* ZipLongest.left: what it has not yielded yet
    zlRight,        \* ZipLongest.right: what it has not yielded yet
    zlYielded,      \* the pairs next() has returned so far
    zlExhausted     \* whether next() has returned None

zlVars == <<zlA, zlB, zlLeft, zlRight, zlYielded, zlExhausted>>

VARIABLES
    \* ---- Accumulate (src/src/iter/accumulate.rs)
    acSrc,          \* the sequence accumulate() was called on (never changes)
    acIter,         \* Accumulate.iter: what the upstream has not yielded yet
    accum,          \* Accumulate.accum
    acYielded,      \* what next() has returned so far
    acExhausted     \* whether next() has returned None

acVars == <<acSrc, acIter, accum, acYielded, acExhausted>>

VARIABLES
    \* ---- Stride (src/src/iter/stride.rs)
    stSrc,          \* the sequence stride() was called on (never changes)
    stIter,         \* Stride.iter: what the upstream has not yielded yet
    stride,         \* Stride.stride
    stYielded,      \* what next() has returned so far
    stExhausted     \* whether next() has returned None

stVars == <<stSrc, stIter, stride, stYielded, stExhausted>>

vars == <<teeVars, gbVars, cpVars, pwVars, teVars, seVars, rrVars, isVars,
          ptVars, zlVars, acVars, stVars>>

\* ------------------------------------------------------------------------
\* Bounds of the model
\* ------------------------------------------------------------------------
TeeMaxLen == 3
TeeMaxElem == 1
GbMaxLen == 4
GbMaxKey == 1
GbReentrantMaxLen == 2
CpMaxLen == 3
CpMaxElem == 1
PwMaxLen == 6
\* The width of usize in the model.
UsizeBits == 5
TeMaxLen == 3
TeMaxElem == 1
TeMaxN == 4
SeMaxLen == 3
SeMaxElem == 1
SeMaxN == 4
RrMaxLen == 4
IsMaxLen == 3
IsMaxElem == 1
PtMaxLen == 3
PtMaxElem == 1
PtMaxMin == 4
ZlMaxLen == 3
ZlMaxElem == 1
AcMaxLen == 4
AcMaxElem == 1
StMaxLen == 4
StMaxElem == 1
StMaxStride == 3

\* ------------------------------------------------------------------------
\* Option and the standard iterator over a finite collection
\* ------------------------------------------------------------------------
None == << >>
Some(x) == << x >>
IsSome(o) == o # << >>
Unwrap(o) == o[1]

\* it.next(): the element returned, and the iterator afterwards (fused).
ItNext(it) == IF it = << >> THEN None ELSE Some(Head(it))
ItRest(it) == IF it = << >> THEN it ELSE Tail(it)

\* All sequences over S of length at most n.
SeqsUpTo(S, n) == UNION {[1..k -> S] : k \in 0..n}

Max(a, b) == IF a >= b THEN a ELSE b
Min(a, b) == IF a <= b THEN a ELSE b

IsPrefix(s, t) == Len(s) <= Len(t) /\ SubSeq(t, 1, Len(s)) = s

\* ------------------------------------------------------------------------
\* Tee
\* ------------------------------------------------------------------------
Handles == {0, 1}

\* size_hint() of an iterator over a collection: exact.
ItSizeHint(it) == <<Len(it), Some(Len(it))>>

\* A faulty BorrowMutFails: the borrow flag is never looked at.
BorrowMutNeverFails(c) == FALSE

\* RefCell::borrow_mut panics when a borrow is alive.
BorrowMutFails(c) == c > 0

TeeInit ==
    /\ teeSrc \in SeqsUpTo(0..TeeMaxElem, TeeMaxLen)
    /\ teeIter = teeSrc
    /\ iter_next = 0
    /\ buffer = << >>
    /\ this_next = [h \in Handles |-> 0]
    /\ teeYielded = [h \in Handles |-> << >>]
    /\ teeExhausted = [h \in Handles |-> FALSE]
    /\ teePanic = "none"
    /\ teeBorrow = 0
    /\ teeActive = None
    /\ teeHint = None

\* A faulty TeeEven: the element is returned but no clone is buffered.
TeeEvenNoPush(h) ==
    /\ teeIter' = ItRest(teeIter)
    /\ IF IsSome(ItNext(teeIter))
       THEN /\ this_next' = [this_next EXCEPT ![h] = @ + 1]
            /\ iter_next' = iter_next + 1
            /\ teeYielded' = [teeYielded EXCEPT ![h] = Append(@, Unwrap(ItNext(teeIter)))]
            /\ UNCHANGED <<buffer, teeExhausted>>
       ELSE /\ teeExhausted' = [teeExhausted EXCEPT ![h] = TRUE]
            /\ UNCHANGED <<this_next, iter_next, buffer, teeYielded>>
    /\ UNCHANGED teePanic

\* A faulty TeeEven: the end of the upstream is counted as an element.
TeeEvenCountsNone(h) ==
    /\ teeIter' = ItRest(teeIter)
    /\ this_next' = [this_next EXCEPT ![h] = @ + 1]
    /\ iter_next' = iter_next + 1
    /\ IF IsSome(ItNext(teeIter))
       THEN /\ buffer' = Append(buffer, Unwrap(ItNext(teeIter)))
            /\ teeYielded' = [teeYielded EXCEPT ![h] = Append(@, Unwrap(ItNext(teeIter)))]
            /\ UNCHANGED teeExhausted
       ELSE /\ teeExhausted' = [teeExhausted EXCEPT ![h] = TRUE]
            /\ UNCHANGED <<buffer, teeYielded>>
    /\ UNCHANGED teePanic

\* "Tee is even with iter": pull the upstream; buffer a clone of the element.
TeeEven(h) ==
    /\ teeIter' = ItRest(teeIter)
    /\ IF IsSome(ItNext(teeIter))
       THEN /\ this_next' = [this_next EXCEPT ![h] = @ + 1]
            /\ iter_next' = iter_next + 1
            /\ buffer' = Append(buffer, Unwrap(ItNext(teeIter)))
            /\ teeYielded' = [teeYielded EXCEPT ![h] = Append(@, Unwrap(ItNext(teeIter)))]
            /\ UNCHANGED teeExhausted
       ELSE /\ teeExhausted' = [teeExhausted EXCEPT ![h] = TRUE]
            /\ UNCHANGED <<this_next, iter_next, buffer, teeYielded>>
    /\ UNCHANGED teePanic

\* A faulty TeeBehind: the handle's position is not advanced.
TeeBehindNoAdvance(h) ==
    /\ buffer' = Tail(buffer)
    /\ teeYielded' = [teeYielded EXCEPT ![h] = Append(@, Head(buffer))]
    /\ UNCHANGED <<this_next, teeIter, iter_next, teeExhausted, teePanic>>

\* A faulty TeeBehind: pop_back instead of pop_front.
TeeBehindPopBack(h) ==
    /\ buffer' = SubSeq(buffer, 1, Len(buffer) - 1)
    /\ this_next' = [this_next EXCEPT ![h] = @ + 1]
    /\ teeYielded' = [teeYielded EXCEPT ![h] = Append(@, buffer[Len(buffer)])]
    /\ UNCHANGED <<teeIter, iter_next, teeExhausted, teePanic>>

\* "Tee is behind iter, elements in buffer": pop the front of the buffer.
TeeBehind(h) ==
    /\ buffer' = Tail(buffer)
    /\ this_next' = [this_next EXCEPT ![h] = @ + 1]
    /\ teeYielded' = [teeYielded EXCEPT ![h] = Append(@, Head(buffer))]
    /\ UNCHANGED <<teeIter, iter_next, teeExhausted, teePanic>>

TeePanics(msg) ==
    /\ teePanic' = msg
    /\ UNCHANGED <<teeIter, iter_next, buffer, this_next, teeYielded, teeExhausted>>

\* Tee::next on handle h, from borrow_mut() to the drop of the borrow.
TeeNext(h) ==
    /\ teePanic = "none"
    /\ LET i == this_next[h]
           j == iter_next
           n == Len(buffer)
       IN  IF BorrowMutFails(teeBorrow) THEN TeePanics("already borrowed")
           ELSE IF i = j THEN TeeEven(h)
           ELSE IF i < j /\ n = 0
                THEN TeePanics("tee fell behind iterator, but buffer is empty")
           ELSE IF i < j THEN TeeBehind(h)
           ELSE TeePanics("tee got ahead of iterator")
    /\ teeHint' = None
    /\ UNCHANGED <<teeSrc, teeBorrow, teeActive>>

\* A faulty TeeSizeHintBehind: the buffered elements are not counted.
TeeSizeHintBehindUpstream(sh, n) == sh

\* "Tee is behind iter, elements in buffer": both bounds of the upstream's
\* hint sh, plus the n buffered elements.
TeeSizeHintBehind(sh, n) ==
    <<sh[1] + n, IF sh[2] = None THEN None ELSE Some(Unwrap(sh[2]) + n)>>

\* What Tee::size_hint on handle h does once it holds the borrow: the panic
\* it ends with ("none" if it returns) and the hint it returns.
TeeSizeHint(h) ==
    LET i == this_next[h]
        j == iter_next
        n == Len(buffer)
    IN  IF i = j THEN [panic |-> "none", hint |-> ItSizeHint(teeIter)]
        ELSE IF i < j /\ n = 0
             THEN [panic |-> "tee fell behind iterator, but buffer is empty",
                   hint |-> <<0, None>>]
        ELSE IF i < j
             THEN [panic |-> "none",
                   hint |-> TeeSizeHintBehind(ItSizeHint(teeIter), n)]
        ELSE [panic |-> "tee got ahead of iterator", hint |-> <<0, None>>]

\* Tee::size_hint on handle h.
TeeSizeHintCall(h) ==
    /\ teePanic = "none"
    /\ IF BorrowMutFails(teeBorrow)
       THEN TeePanics("already borrowed") /\ teeHint' = None
       ELSE IF TeeSizeHint(h).panic # "none"
            THEN TeePanics(TeeSizeHint(h).panic) /\ teeHint' = None
       ELSE /\ teeHint' = Some(<<h, TeeSizeHint(h).hint>>)
            /\ UNCHANGED <<teeIter, iter_next, buffer, this_next, teeYielded,
                           teeExhausted, teePanic>>
    /\ UNCHANGED <<teeSrc, teeBorrow, teeActive>>

\* Tee::next on handle h up to its call of the upstream: the borrow is
\* taken, the handle is even with the upstream.
TeeNextEnter(h) ==
    /\ teePanic = "none"
    /\ teeActive = None
    /\ ~BorrowMutFails(teeBorrow)
    /\ this_next[h] = iter_next
    /\ teeBorrow' = teeBorrow + 1
    /\ teeActive' = Some(h)
    /\ teeHint' = None
    /\ UNCHANGED <<teeSrc, teeIter, iter_next, buffer, this_next, teeYielded,
                   teeExhausted, teePanic>>

\* The rest of that call: the pull, the return, the drop of the borrow.
TeeNextLeave(h) ==
    /\ teePanic = "none"
    /\ teeActive = Some(h)
    /\ TeeEven(h)
    /\ teeBorrow' = teeBorrow - 1
    /\ teeActive' = None
    /\ teeHint' = None
    /\ UNCHANGED teeSrc

TeeIdle ==
    /\ teeSrc = << >>
    /\ teeIter = << >>
    /\ iter_next = 0
    /\ buffer = << >>
    /\ this_next = [h \in Handles |-> 0]
    /\ teeYielded = [h \in Handles |-> << >>]
    /\ teeExhausted = [h \in Handles |-> FALSE]
    /\ teePanic = "none"
    /\ teeBorrow = 0
    /\ teeActive = None
    /\ teeHint = None

\* ------------------------------------------------------------------------
\* GroupBy / Group
\*
\* The adaptor is generic in the element type and only ever looks at an
\* element through the group function, so the element at position p of the
\* source is <<p, key>>: distinct elements, any pattern of keys.
\* ------------------------------------------------------------------------
GroupFn(e) == e[2]

GbSources ==
    UNION {{[p \in 1..n |-> <<p, ks[p]>>] : ks \in [1..n -> 0..GbMaxKey]} :
              n \in 0..GbMaxLen}

GbInit ==
    /\ gbSrc \in GbSources
    /\ gbIter = gbSrc
    /\ last_group = None
    /\ push_back = None
    /\ groups = << >>
    /\ gbKeys = << >>
    /\ gbOuterDone = FALSE
    /\ grpSeed = << >>
    /\ grpYielded = << >>
    /\ grpExhausted = << >>
    /\ gbLast = 0
    /\ gbAbandoned = FALSE
    /\ gbStale = FALSE
    /\ gbRepulled = FALSE
    /\ gbPanic = "none"
    /\ gbBorrow = 0
    /\ gbActive = None

\* The skip loop of GroupBy::next: pull until the group changes.  The result
\* is the upstream positioned at the first element whose group differs from
\* last_g (empty when there is none).
RECURSIVE GbSkip(_, _)
GbSkip(it, last_g) ==
    IF it = << >> THEN it
    ELSE IF GroupFn(Head(it)) # last_g THEN it
    ELSE GbSkip(Tail(it), last_g)

\* GroupBy::next returns Some((g, Group {group_value: g, first_value: Some(e)})).
GbYield(g, e) ==
    /\ groups' = Append(groups, [group_value |-> g, first_value |-> Some(e)])
    /\ gbKeys' = Append(gbKeys, g)
    /\ grpSeed' = Append(grpSeed, e)
    /\ grpYielded' = Append(grpYielded, << >>)
    /\ grpExhausted' = Append(grpExhausted, FALSE)
    /\ UNCHANGED gbOuterDone

GbReturnNone ==
    /\ gbOuterDone' = TRUE
    /\ UNCHANGED <<groups, gbKeys, grpSeed, grpYielded, grpExhausted>>

\* "If we have a push-back element, immediately construct a sub iterator."
GbFromPushBack ==
    /\ push_back' = None
    /\ GbYield(Unwrap(push_back)[1], Unwrap(push_back)[2])
    /\ UNCHANGED <<gbIter, last_group>>

\* "Otherwise, try to pull the next element from the input iterator", lg
\* being what replace(&mut state.last_group, None) returned.
GbFromIterFrom(lg) ==
    LET it == IF lg = None THEN gbIter
              ELSE GbSkip(gbIter, Unwrap(lg))
    IN  /\ gbIter' = ItRest(it)
        /\ IF IsSome(ItNext(it))
           THEN /\ last_group' = Some(GroupFn(Unwrap(ItNext(it))))
                /\ GbYield(GroupFn(Unwrap(ItNext(it))), Unwrap(ItNext(it)))
           ELSE /\ last_group' = None
                /\ GbReturnNone
        /\ UNCHANGED push_back

GbFromIter == GbFromIterFrom(last_group)

\* A call ends in the panic msg, the shared state as it found it.
GbPanics(msg) ==
    /\ gbPanic' = msg
    /\ UNCHANGED <<gbIter, last_group, push_back, groups, gbKeys, gbOuterDone,
                   grpSeed, grpYielded, grpExhausted, gbLast, gbAbandoned,
                   gbStale, gbRepulled>>

\* GroupBy::next has been called: the record of the call.
GbCalled ==
    /\ gbLast' = 0
    /\ gbAbandoned' = (gbAbandoned \/
                          (groups # << >> /\ ~grpExhausted[Len(groups)]))
    /\ UNCHANGED <<gbStale, gbRepulled, gbPanic>>

\* GroupBy::next, from borrow_mut() to the drop of the borrow.
GbNext ==
    /\ gbPanic = "none"
    /\ IF BorrowMutFails(gbBorrow) THEN GbPanics("already borrowed")
       ELSE /\ IF IsSome(push_back) THEN GbFromPushBack ELSE GbFromIter
            /\ GbCalled
    /\ UNCHANGED <<gbSrc, gbBorrow, gbActive>>

\* GroupBy::next up to its first call of the upstream: the borrow is taken,
\* no push-back is pending, last_group has been replaced by None.
GbNextEnter ==
    /\ gbPanic = "none"
    /\ gbActive = None
    /\ ~BorrowMutFails(gbBorrow)
    /\ push_back = None
    /\ gbBorrow' = gbBorrow + 1
    /\ last_group' = None
    /\ gbActive' = Some([who |-> 0, last_g |-> last_group])
    /\ UNCHANGED <<gbSrc, gbIter, push_back, groups, gbKeys, gbOuterDone,
                   grpSeed, grpYielded, grpExhausted, gbLast, gbAbandoned,
                   gbStale, gbRepulled, gbPanic>>

\* The rest of that call: the pulls, the return, the drop of the borrow.
GbNextLeave ==
    /\ gbPanic = "none"
    /\ IsSome(gbActive)
    /\ Unwrap(gbActive).who = 0
    /\ GbFromIterFrom(Unwrap(gbActive).last_g)
    /\ GbCalled
    /\ gbBorrow' = gbBorrow - 1
    /\ gbActive' = None
    /\ UNCHANGED gbSrc

GroupReturns(k, o) ==
    /\ grpYielded' = [grpYielded EXCEPT ![k] = @ \o o]
    /\ grpExhausted' = [grpExhausted EXCEPT ![k] = @ \/ o = None]

\* "If we have a first_value, consume and yield that."
GroupFirst(k) ==
    /\ groups' = [groups EXCEPT ![k].first_value = None]
    /\ GroupReturns(k, groups[k].first_value)
    /\ UNCHANGED <<gbIter, last_group, push_back>>

\* A faulty GroupDifferent: the element of the next group is dropped.
GroupDifferentLost(k, g, e) ==
    /\ UNCHANGED push_back
    /\ GroupReturns(k, None)

\* "Different group!  We need to push (g, e) back into the master iterator."
GroupDifferent(k, g, e) ==
    /\ push_back' = Some(<<g, e>>)
    /\ GroupReturns(k, None)

\* Group::next past the first value: pull the shared upstream.
GroupPull(k) ==
    /\ gbIter' = ItRest(gbIter)
    /\ IF ItNext(gbIter) = None
       THEN GroupReturns(k, None) /\ UNCHANGED push_back
       ELSE LET e == Unwrap(ItNext(gbIter))
                g == GroupFn(e)
            IN  IF g = groups[k].group_value
                THEN GroupReturns(k, Some(e)) /\ UNCHANGED push_back
                ELSE GroupDifferent(k, g, e)
    /\ UNCHANGED <<groups, last_group>>

\* GroupBy::size_hint: the upstream's hint, the lower bound capped at one.
GbSizeHint == <<Min(ItSizeHint(gbIter)[1], 1), ItSizeHint(gbIter)[2]>>

\* Group::size_hint of the k-th Group handed out.
GroupSizeHint(k) ==
    <<IF IsSome(groups[k].first_value) THEN 1 ELSE 0, ItSizeHint(gbIter)[2]>>

\* next() of Group k has been called: the record of the call.
GroupCalled(k) ==
    /\ gbLast' = k
    /\ gbStale' = (gbStale \/ k < Len(groups))
    /\ gbRepulled' = (gbRepulled \/ grpExhausted[k])
    /\ UNCHANGED <<gbKeys, gbOuterDone, grpSeed, gbAbandoned, gbPanic>>

\* Group::next on the k-th Group handed out; the shared state is borrowed
\* only when there is no first value to hand out.
GroupNext(k) ==
    /\ gbPanic = "none"
    /\ IF IsSome(groups[k].first_value) THEN GroupFirst(k) /\ GroupCalled(k)
       ELSE IF BorrowMutFails(gbBorrow) THEN GbPanics("already borrowed")
       ELSE GroupPull(k) /\ GroupCalled(k)
    /\ UNCHANGED <<gbSrc, gbBorrow, gbActive>>

\* Group::next up to its call of the upstream: no first value, the borrow is
\* taken.
GroupNextEnter(k) ==
    /\ gbPanic = "none"
    /\ gbActive = None
    /\ groups[k].first_value = None
    /\ ~BorrowMutFails(gbBorrow)
    /\ gbBorrow' = gbBorrow + 1
    /\ gbActive' = Some([who |-> k, last_g |-> None])
    /\ UNCHANGED <<gbSrc, gbIter, last_group, push_back, groups, gbKeys,
                   gbOuterDone, grpSeed, grpYielded, grpExhausted, gbLast,
                   gbAbandoned, gbStale, gbRepulled, gbPanic>>

\* The rest of that call: the pull, the return, the drop of the borrow.
GroupNextLeave(k) ==
    /\ gbPanic = "none"
    /\ IsSome(gbActive)
    /\ Unwrap(gbActive).who = k
    /\ GroupPull(k)
    /\ GroupCalled(k)
    /\ gbBorrow' = gbBorrow - 1
    /\ gbActive' = None
    /\ UNCHANGED gbSrc

\* group_by() over a short source.
GbInitShort == GbInit /\ Len(gbSrc) <= GbReentrantMaxLen

GbIdle ==
    /\ gbSrc = << >>
    /\ gbIter = << >>
    /\ last_group = None
    /\ push_back = None
    /\ groups = << >>
    /\ gbKeys = << >>
    /\ gbOuterDone = FALSE
    /\ grpSeed = << >>
    /\ grpYielded = << >>
    /\ grpExhausted = << >>
    /\ gbLast = 0
    /\ gbAbandoned = FALSE
    /\ gbStale = FALSE
    /\ gbRepulled = FALSE
    /\ gbPanic = "none"
    /\ gbBorrow = 0
    /\ gbActive = None

\* ------------------------------------------------------------------------
\* CartesianProduct
\* ------------------------------------------------------------------------
CpInit ==
    /\ cpLeftSrc \in SeqsUpTo(0..CpMaxElem, CpMaxLen)
    /\ cpRightSrc \in SeqsUpTo(0..CpMaxElem, CpMaxLen)
    /\ left = cpLeftSrc
    /\ right = cpRightSrc
    /\ right_checkpoint = cpRightSrc
    /\ left_value = None
    /\ cpYielded = << >>
    /\ cpExhausted = FALSE
    /\ cpPulls = 0
    /\ cpHint = None

\* A faulty CpRestart: the right iterator is left exhausted.
CpRestartNot == << >>

\* "self.right = self.right_checkpoint.clone()"
CpRestart == right_checkpoint

\* A faulty CpClear: the left value stays held.
CpClearKept(lv) == lv

\* "self.left_value = None"
CpClear(lv) == None

\* A faulty CpRowOpen: the row is given up at its last element.
CpRowOpenEarly(r, lv) == IsSome(lv) /\ Len(r) > 1

\* A left value is held and self.right.next() is Some(e1): the pair is
\* returned.
CpRowOpen(r, lv) == IsSome(lv) /\ IsSome(ItNext(r))

\* The loop of CartesianProduct::next from the state (l, r, lv): the fields
\* when it returns, what it returns, and how many times it has called
\* left.next().
RECURSIVE CpLoop(_, _, _)
CpLoop(l, r, lv) ==
    IF CpRowOpen(r, lv)
    THEN [left |-> l, right |-> ItRest(r), left_value |-> lv,
          ret |-> Some(<<Unwrap(lv), Unwrap(ItNext(r))>>), pulls |-> 0]
    ELSE LET r2 == IF IsSome(lv) THEN CpRestart ELSE r
         IN  IF IsSome(ItNext(l))
             THEN [CpLoop(ItRest(l), r2, ItNext(l)) EXCEPT !.pulls = @ + 1]
             ELSE [left |-> l, right |-> r2, left_value |-> CpClear(lv),
                   ret |-> None, pulls |-> 1]

\* CartesianProduct::next.
CpNext ==
    LET out == CpLoop(left, right, left_value)
    IN  /\ left' = out.left
        /\ right' = out.right
        /\ left_value' = out.left_value
        /\ cpYielded' = cpYielded \o out.ret
        /\ cpExhausted' = (cpExhausted \/ out.ret = None)
        /\ cpPulls' = out.pulls
        /\ cpHint' = None
        /\ UNCHANGED <<cpLeftSrc, cpRightSrc, right_checkpoint>>

CombineBoundsWithPartial(b0, b1, bc) == b1 + b0 * bc
CombineBoundsWithoutPartial(b0, b1, bc) == b0 * bc

\* CartesianProduct::size_hint.
CpSizeHint ==
    LET h0 == ItSizeHint(left)
        h1 == ItSizeHint(right)
        hc == ItSizeHint(right_checkpoint)
        l == IF IsSome(left_value)
             THEN CombineBoundsWithPartial(h1[1], h0[1], hc[1])
             ELSE CombineBoundsWithoutPartial(h1[1], h0[1], hc[1])
        mu == IF h0[2] = None \/ h1[2] = None \/ hc[2] = None THEN None
              ELSE IF IsSome(left_value)
                   THEN Some(CombineBoundsWithPartial(Unwrap(h1[2]), Unwrap(h0[2]), Unwrap(hc[2])))
                   ELSE Some(CombineBoundsWithoutPartial(Unwrap(h1[2]), Unwrap(h0[2]), Unwrap(hc[2])))
    IN  <<l, mu>>

\* size_hint() is called: it takes &self and leaves every field as it is.
CpSizeHintCall ==
    /\ cpHint' = Some(CpSizeHint)
    /\ UNCHANGED <<cpLeftSrc, cpRightSrc, left, right, right_checkpoint,
                   left_value, cpYielded, cpExhausted, cpPulls>>

CpIdle ==
    /\ cpLeftSrc = << >>
    /\ cpRightSrc = << >>
    /\ left = << >>
    /\ right = << >>
    /\ right_checkpoint = << >>
    /\ left_value = None
    /\ cpYielded = << >>
    /\ cpExhausted = FALSE
    /\ cpPulls = 0
    /\ cpHint = None

\* ------------------------------------------------------------------------
\* PacingWalk
\*
\* The input is a random-access iterator over pwLen elements that the walk
\* never advances; the element at index i is identified with i.
\* ------------------------------------------------------------------------
UsizeMax == 2 ^ UsizeBits - 1

CheckedAdd(a, b) == IF a + b > UsizeMax THEN None ELSE Some(a + b)

\* A faulty CheckedMul: the product wraps instead of being reported.
CheckedMulWrapping(a, b) == Some((a * b) % (UsizeMax + 1))

CheckedMul(a, b) == IF a * b > UsizeMax THEN None ELSE Some(a * b)

\* iter.idx(i)
Idx(i) == IF i >= 0 /\ i < pwLen THEN Some(i) ELSE None

PwInit ==
    /\ pwLen \in 0..PwMaxLen
    /\ start_at \in 0..pwLen
    /\ pos = 0
    /\ pwYielded = << >>
    /\ pwExhausted = FALSE

\* The walk over an input of any length usize can hold.
PwInitWide ==
    /\ pwLen \in 0..UsizeMax
    /\ start_at \in 0..pwLen
    /\ pos = 0
    /\ pwYielded = << >>
    /\ pwExhausted = FALSE

\* A faulty StopPos: the walk is only stopped by the end of usize.
StopPosNever == UsizeMax

StopPos ==
    LET iter_len == pwLen
        left_len == iter_len - start_at
        twice == CheckedMul(2, Max(left_len, iter_len - left_len))
        plus1 == IF twice = None THEN None ELSE CheckedAdd(Unwrap(twice), 1)
    IN  IF plus1 = None THEN UsizeMax ELSE Unwrap(plus1)

\* A faulty JitterRight: even steps go right, odd steps left.
JitterRightSwapped(p) == (p % 2) = 0

JitterRight(p) == (p % 2) # 0

\* A faulty Mag: the half of pos + 1 is rounded up.
MagRoundedUp(p) ==
    IF CheckedAdd(p, 1) = None THEN (UsizeMax \div 2) + 1
    ELSE (Unwrap(CheckedAdd(p, 1)) + 1) \div 2

Mag(p) ==
    IF CheckedAdd(p, 1) = None THEN (UsizeMax \div 2) + 1
    ELSE Unwrap(CheckedAdd(p, 1)) \div 2

\* PacingWalk::next entered with self.pos = p: self.pos when it returns, and
\* what it returns.
RECURSIVE PwNextFrom(_)
PwNextFrom(p) ==
    IF p >= StopPos THEN [pos |-> p, ret |-> None]
    ELSE IF \/ ~JitterRight(p) /\ Mag(p) > start_at
            \/ JitterRight(p) /\ Mag(p) >= pwLen - start_at
         THEN IF CheckedAdd(p, 1) = None THEN [pos |-> p, ret |-> None]
              ELSE PwNextFrom(p + 1)
    ELSE LET idx == IF JitterRight(p) THEN start_at + Mag(p) ELSE start_at - Mag(p)
         IN  IF Idx(idx) = None THEN [pos |-> p, ret |-> None]
             ELSE IF CheckedAdd(p, 1) = None THEN [pos |-> p, ret |-> None]
             ELSE [pos |-> p + 1, ret |-> Idx(idx)]

\* The results of the unchecked arithmetic PacingWalk::next performs when it
\* is entered with self.pos = p: the two subtractions of stop_pos, and, past
\* the stop test, the halving constant, the right-hand length and the index.
PwUnchecked(p) ==
    LET iter_len == pwLen
        left_len == iter_len - start_at
    IN  {left_len, iter_len - left_len}
        \cup (IF p >= StopPos THEN {}
              ELSE {(UsizeMax \div 2) + 1, Mag(p)}
                   \cup (IF ~JitterRight(p) /\ Mag(p) > start_at THEN {}
                         ELSE IF JitterRight(p)
                              THEN {pwLen - start_at}
                                   \cup (IF Mag(p) >= pwLen - start_at THEN {}
                                         ELSE {start_at + Mag(p)})
                         ELSE {start_at - Mag(p)}))

\* PacingWalk::size_hint: the hint of the input, which the walk reads by
\* index and never advances.
PwSizeHint == <<pwLen, Some(pwLen)>>

\* PacingWalk::next.
PwNext ==
    /\ pos' = PwNextFrom(pos).pos
    /\ pwYielded' = pwYielded \o PwNextFrom(pos).ret
    /\ pwExhausted' = (pwExhausted \/ PwNextFrom(pos).ret = None)
    /\ UNCHANGED <<pwLen, start_at>>

PwIdle ==
    /\ pwLen = 0
    /\ start_at = 0
    /\ pos = 0
    /\ pwYielded = << >>
    /\ pwExhausted = FALSE

\* ------------------------------------------------------------------------
\* TakeExactly
\* ------------------------------------------------------------------------
TeInit ==
    /\ teSrc \in SeqsUpTo(0..TeMaxElem, TeMaxLen)
    /\ teN \in 0..TeMaxN
    /\ teIter = teSrc
    /\ teLeft = teN
    /\ teYielded = << >>
    /\ teExhausted = FALSE
    /\ tePanic = "none"

\* A faulty TeRanOut: the short source is reported as plain exhaustion.
TeRanOutQuietly == "none"

\* The arm of TakeExactly::next taken when the source ends early.
TeRanOut == "take_exactly expected more elements from iterator, but ran out"

\* TakeExactly::next: the panic it ends with ("none" if it returns), what
\* it returns, and the fields when it ends.
TeNextResult ==
    IF teLeft = 0
    THEN [panic |-> "none", ret |-> None, iter |-> teIter, left |-> teLeft]
    ELSE IF ItNext(teIter) = None
         THEN [panic |-> TeRanOut, ret |-> None, iter |-> ItRest(teIter),
               left |-> teLeft]
    ELSE [panic |-> "none", ret |-> ItNext(teIter), iter |-> ItRest(teIter),
          left |-> teLeft - 1]

TeNext ==
    /\ tePanic = "none"
    /\ tePanic' = TeNextResult.panic
    /\ teIter' = TeNextResult.iter
    /\ teLeft' = TeNextResult.left
    /\ teYielded' = teYielded \o TeNextResult.ret
    /\ teExhausted' = (teExhausted \/ (TeNextResult.panic = "none"
                                       /\ TeNextResult.ret = None))
    /\ UNCHANGED <<teSrc, teN>>

\* TakeExactly::size_hint.
TeSizeHint == <<teLeft, Some(teLeft)>>

TeIdle ==
    /\ teSrc = << >>
    /\ teN = 0
    /\ teIter = << >>
    /\ teLeft = 0
    /\ teYielded = << >>
    /\ teExhausted = FALSE
    /\ tePanic = "none"

\* ------------------------------------------------------------------------
\* skip_exactly
\* ------------------------------------------------------------------------
SeInit ==
    /\ seSrc \in SeqsUpTo(0..SeMaxElem, SeMaxLen)
    /\ seN \in 0..SeMaxN
    /\ seIter = seSrc
    /\ seCalled = FALSE
    /\ seSkipped = 0
    /\ sePanic = "none"
    /\ seYielded = << >>
    /\ seExhausted = FALSE

\* A faulty SeRanOut: the short iterator is returned as it is.
SeRanOutQuietly == "none"

\* The arm of the loop taken when the iterator ends early.
SeRanOut == "skip_exactly asked to skip more elements than it got"

\* The loop of skip_exactly from its round i on, self being it: the panic it
\* ends with ("none" if it ends normally), self and the rounds completed.
RECURSIVE SeLoop(_, _, _)
SeLoop(it, i, n) ==
    IF i >= n THEN [panic |-> "none", iter |-> it, i |-> i]
    ELSE IF ItNext(it) = None
         THEN [panic |-> SeRanOut, iter |-> ItRest(it), i |-> i]
    ELSE SeLoop(ItRest(it), i + 1, n)

\* skip_exactly(n).
SeSkipExactly ==
    /\ ~seCalled
    /\ seCalled' = TRUE
    /\ seIter' = SeLoop(seIter, 0, seN).iter
    /\ seSkipped' = SeLoop(seIter, 0, seN).i
    /\ sePanic' = SeLoop(seIter, 0, seN).panic
    /\ UNCHANGED <<seSrc, seN, seYielded, seExhausted>>

\* next() of the iterator skip_exactly() returned.
SeNext ==
    /\ seCalled
    /\ sePanic = "none"
    /\ seIter' = ItRest(seIter)
    /\ seYielded' = seYielded \o ItNext(seIter)
    /\ seExhausted' = (seExhausted \/ ItNext(seIter) = None)
    /\ UNCHANGED <<seSrc, seN, seCalled, seSkipped, sePanic>>

SeIdle ==
    /\ seSrc = << >>
    /\ seN = 0
    /\ seIter = << >>
    /\ seCalled = FALSE
    /\ seSkipped = 0
    /\ sePanic = "none"
    /\ seYielded = << >>
    /\ seExhausted = FALSE

\* ------------------------------------------------------------------------
\* RoundRobin / RoundRobinLongest
\*
\* Neither adaptor looks at an element, so the element at position p of
\* input t (0 or 1) is modelled as <<t, p>>. The inputs are fused: once
\* empty they keep returning None.
\* ------------------------------------------------------------------------
RrSource(t, n) == [p \in 1..n |-> <<t, p>>]

\* round_robin(): phase 0.
RrInit ==
    /\ rrA \in {RrSource(0, n) : n \in 0..RrMaxLen}
    /\ rrB \in {RrSource(1, n) : n \in 0..RrMaxLen}
    /\ it0 = rrA
    /\ it1 = rrB
    /\ phase = 0
    /\ fused = FALSE
    /\ rrYielded = << >>
    /\ rrExhausted = FALSE

\* A faulty RrNone: an exhausted input hands the turn to the other one.
RrNoneSwitching(ph) == 1 - ph

\* The phase after the "None => None" arm taken in phase ph: as it was.
RrNone(ph) == ph

\* RoundRobin::next.
RrNext ==
    /\ IF phase = 0
       THEN /\ it0' = ItRest(it0)
            /\ phase' = IF ItNext(it0) = None THEN RrNone(phase) ELSE 1
            /\ rrYielded' = rrYielded \o ItNext(it0)
            /\ rrExhausted' = (rrExhausted \/ ItNext(it0) = None)
            /\ UNCHANGED it1
       ELSE /\ it1' = ItRest(it1)
            /\ phase' = IF ItNext(it1) = None THEN RrNone(phase) ELSE 0
            /\ rrYielded' = rrYielded \o ItNext(it1)
            /\ rrExhausted' = (rrExhausted \/ ItNext(it1) = None)
            /\ UNCHANGED it0
    /\ UNCHANGED <<rrA, rrB, fused>>

\* RoundRobin::size_hint.
RrSizeHint ==
    LET h0 == ItSizeHint(it0)
        h1 == ItSizeHint(it1)
    IN  IF h0[2] = None \/ h1[2] = None THEN <<h0[1] + h1[1], None>>
        ELSE <<h0[1] + h1[1], Some(2 * Min(Unwrap(h0[2]), Unwrap(h1[2])))>>

\* round_robin_longest(): phase 0, not fused.
RlInit ==
    /\ rrA \in {RrSource(0, n) : n \in 0..RrMaxLen}
    /\ rrB \in {RrSource(1, n) : n \in 0..RrMaxLen}
    /\ it0 = rrA
    /\ it1 = rrB
    /\ phase = 0
    /\ fused = FALSE
    /\ rrYielded = << >>
    /\ rrExhausted = FALSE

\* A faulty RlSkip: fused is set but the turn stays with the empty input.
RlSkipSamePhase(ph) == [phase |-> ph, fused |-> TRUE]

\* phase and fused as the (phase, false) arm sets them when its input
\* returns None, before it calls self.next().
RlSkip(ph) == [phase |-> 1 - ph, fused |-> TRUE]

\* RoundRobinLongest::next entered with the fields i0, i1, ph, fu: the
\* fields when it returns, and what it returns.
RECURSIVE RlNextFrom(_, _, _, _)
RlNextFrom(i0, i1, ph, fu) ==
    IF ph = 0 /\ fu
    THEN [it0 |-> ItRest(i0), it1 |-> i1, phase |-> ph, fused |-> fu,
          ret |-> ItNext(i0)]
    ELSE IF fu
    THEN [it0 |-> i0, it1 |-> ItRest(i1), phase |-> ph, fused |-> fu,
          ret |-> ItNext(i1)]
    ELSE IF ph = 0
    THEN IF ItNext(i0) = None
         THEN RlNextFrom(ItRest(i0), i1, RlSkip(ph).phase, RlSkip(ph).fused)
         ELSE [it0 |-> ItRest(i0), it1 |-> i1, phase |-> 1, fused |-> fu,
               ret |-> ItNext(i0)]
    ELSE IF ItNext(i1) = None
         THEN RlNextFrom(i0, ItRest(i1), RlSkip(ph).phase, RlSkip(ph).fused)
         ELSE [it0 |-> i0, it1 |-> ItRest(i1), phase |-> 0, fused |-> fu,
               ret |-> ItNext(i1)]

\* RoundRobinLongest::next.
RlNext ==
    /\ it0' = RlNextFrom(it0, it1, phase, fused).it0
    /\ it1' = RlNextFrom(it0, it1, phase, fused).it1
    /\ phase' = RlNextFrom(it0, it1, phase, fused).phase
    /\ fused' = RlNextFrom(it0, it1, phase, fused).fused
    /\ rrYielded' = rrYielded \o RlNextFrom(it0, it1, phase, fused).ret
    /\ rrExhausted' =
          (rrExhausted \/ RlNextFrom(it0, it1, phase, fused).ret = None)
    /\ UNCHANGED <<rrA, rrB>>

RrIdle ==
    /\ rrA = << >>
    /\ rrB = << >>
    /\ it0 = << >>
    /\ it1 = << >>
    /\ phase = 0
    /\ fused = FALSE
    /\ rrYielded = << >>
    /\ rrExhausted = FALSE

\* ------------------------------------------------------------------------
\* Intersperse
\* ------------------------------------------------------------------------

\* intersperse(inject): the first element is pulled into look_ahead.
IsInit ==
    /\ isSrc \in SeqsUpTo(0..IsMaxElem, IsMaxLen)
    /\ inject \in 0..IsMaxElem
    /\ look_ahead = ItNext(isSrc)
    /\ isIter = ItRest(isSrc)
    /\ next_is_inject = FALSE
    /\ isYielded = << >>
    /\ isExhausted = FALSE
    /\ isIdxed = None

\* A faulty IsInjectDue: inject is yielded whether or not an element follows.
IsInjectDueAlways == TRUE

\* self.look_ahead.is_some() of the "true" arm.
IsInjectDue == IsSome(look_ahead)

\* Intersperse::next.
IsNext ==
    /\ IF ~next_is_inject
       THEN IF look_ahead = None
            THEN /\ isExhausted' = TRUE
                 /\ UNCHANGED <<isIter, look_ahead, next_is_inject, isYielded>>
            ELSE /\ look_ahead' = ItNext(isIter)
                 /\ isIter' = ItRest(isIter)
                 /\ next_is_inject' = TRUE
                 /\ isYielded' = Append(isYielded, <<"elem", Unwrap(look_ahead)>>)
                 /\ UNCHANGED isExhausted
       ELSE IF IsInjectDue
            THEN /\ next_is_inject' = FALSE
                 /\ isYielded' = Append(isYielded, <<"inject", inject>>)
                 /\ UNCHANGED <<isIter, look_ahead, isExhausted>>
            ELSE /\ isExhausted' = TRUE
                 /\ UNCHANGED <<isIter, look_ahead, next_is_inject, isYielded>>
    /\ isIdxed' = None
    /\ UNCHANGED <<isSrc, inject>>

\* Intersperse::size_hint, from the hint of self.iter alone.
IsSizeHint ==
    LET li == ItSizeHint(isIter)[1]
        mui == ItSizeHint(isIter)[2]
    IN  <<IF li = 0 THEN 0 ELSE li + li - 1,
          IF mui = None THEN None
          ELSE IF Unwrap(mui) = 0 THEN Some(0)
          ELSE Some(Unwrap(mui) + Unwrap(mui) - 1)>>

\* self.iter.indexable() and self.iter.idx(k) of the input, a random-access
\* iterator over the elements it has not yielded yet.
IsIterIndexable == Len(isIter)
IsIterIdx(k) == IF k < Len(isIter) THEN Some(<<"elem", isIter[k + 1]>>) ELSE None

\* A faulty IsIndexable: the element held in look_ahead is not counted.
IsIndexableOfIter ==
    IF look_ahead = None THEN 0
    ELSE LET n == IsIterIndexable
         IN  IF n = 0 THEN 0
             ELSE IF ~next_is_inject THEN n + (n - 1)
             ELSE 1 + n + (n - 1)

\* Intersperse::indexable.
IsIndexable ==
    IF look_ahead = None THEN 0
    ELSE LET n == IsIterIndexable
         IN  IF n = 0 /\ ~next_is_inject THEN 1
             ELSE IF n = 0 THEN 2
             ELSE IF n = 1 /\ ~next_is_inject THEN 3
             ELSE IF n = 1 THEN 4
             ELSE IF ~next_is_inject THEN 2 + n + (n - 1)
             ELSE 1 + 2 + n + (n - 1)

\* Intersperse::idx(index): the arms of its match, in order.
IsIdx(index) ==
    IF look_ahead = None THEN None
    ELSE IF ~next_is_inject
    THEN IF index = 0 THEN Some(<<"elem", Unwrap(look_ahead)>>)
         ELSE IF index = 1 /\ IsIterIndexable = 0 THEN None
         ELSE IF index = 1 THEN Some(<<"inject", inject>>)
         ELSE IF index % 2 = 0 THEN IsIterIdx(index \div 2 - 1)
         ELSE IF index < IsIndexable THEN Some(<<"inject", inject>>)
         ELSE None
    ELSE IF index = 0 THEN Some(<<"inject", inject>>)
         ELSE IF index = 1 THEN Some(<<"elem", Unwrap(look_ahead)>>)
         ELSE IF index % 2 = 0
              THEN IF index < IsIndexable THEN Some(<<"inject", inject>>)
                   ELSE None
         ELSE IsIterIdx((index - 1) \div 2 - 1)

\* The indices idx() is called with: all that are in range for an input of
\* the longest length, and two past them.
IsIndices == 0..(2 * IsMaxLen)

\* idx(i) is called: the record of its result; the input's idx() does not
\* advance it.
IsIdxCall(i) ==
    /\ isIdxed' = Some(<<i, IsIdx(i)>>)
    /\ UNCHANGED <<isSrc, inject, isIter, look_ahead, next_is_inject,
                   isYielded, isExhausted>>

IsIdle ==
    /\ isSrc = << >>
    /\ inject = 0
    /\ look_ahead = None
    /\ isIter = << >>
    /\ next_is_inject = FALSE
    /\ isYielded = << >>
    /\ isExhausted = FALSE
    /\ isIdxed = None

\* ------------------------------------------------------------------------
\* PadTailTo
\*
\* The filler is any function of the position; the value filler(i) is
\* modelled as <<"filler", i>>.
\* ------------------------------------------------------------------------
PtInit ==
    /\ ptSrc \in SeqsUpTo(0..PtMaxElem, PtMaxLen)
    /\ ptMin \in 0..PtMaxMin
    /\ ptIter = ptSrc
    /\ ptPos = 0
    /\ ptYielded = << >>
    /\ ptExhausted = FALSE

\* A faulty PtPadDue: one filler value too many.
PtPadDueInclusive == ptPos <= ptMin

\* "if self.pos < self.min"
PtPadDue == ptPos < ptMin

\* PadTailTo::next.
PtNext ==
    /\ ptIter' = ItRest(ptIter)
    /\ IF ItNext(ptIter) = None
       THEN IF PtPadDue
            THEN /\ ptYielded' = Append(ptYielded, <<"filler", ptPos>>)
                 /\ ptPos' = ptPos + 1
                 /\ UNCHANGED ptExhausted
            ELSE /\ ptExhausted' = TRUE
                 /\ UNCHANGED <<ptYielded, ptPos>>
       ELSE /\ ptYielded' = Append(ptYielded, <<"elem", Unwrap(ItNext(ptIter))>>)
            /\ ptPos' = ptPos + 1
            /\ UNCHANGED ptExhausted
    /\ UNCHANGED <<ptSrc, ptMin>>

PtIdle ==
    /\ ptSrc = << >>
    /\ ptMin = 0
    /\ ptIter = << >>
    /\ ptPos = 0
    /\ ptYielded = << >>
    /\ ptExhausted = FALSE

\* ------------------------------------------------------------------------
\* ZipLongest
\* ------------------------------------------------------------------------
ZlInit ==
    /\ zlA \in SeqsUpTo(0..ZlMaxElem, ZlMaxLen)
    /\ zlB \in SeqsUpTo(0..ZlMaxElem, ZlMaxLen)
    /\ zlLeft = zlA
    /\ zlRight = zlB
    /\ zlYielded = << >>
    /\ zlExhausted = FALSE

\* A faulty ZlBothNone: the zip ends with the shorter input.
ZlEitherNone(l, r) == l = None \/ r = None

\* The arm "(None, None) => None".
ZlBothNone(l, r) == l = None /\ r = None

\* ZipLongest::next: both inputs are pulled, whatever they return.
ZlNext ==
    /\ zlLeft' = ItRest(zlLeft)
    /\ zlRight' = ItRest(zlRight)
    /\ IF ZlBothNone(ItNext(zlLeft), ItNext(zlRight))
       THEN zlExhausted' = TRUE /\ UNCHANGED zlYielded
       ELSE /\ zlYielded' = Append(zlYielded, <<ItNext(zlLeft), ItNext(zlRight)>>)
            /\ UNCHANGED zlExhausted
    /\ UNCHANGED <<zlA, zlB>>

\* A faulty ZlSizeHintOf: the bounds of the shorter input.
ZlSizeHintOfShorter(l, r) ==
    <<Min(ItSizeHint(l)[1], ItSizeHint(r)[1]),
      Some(Min(Unwrap(ItSizeHint(l)[2]), Unwrap(ItSizeHint(r)[2])))>>

\* ZipLongest::size_hint with the fields left = l and right = r.
ZlSizeHintOf(l, r) ==
    LET h0 == ItSizeHint(l)
        h1 == ItSizeHint(r)
    IN  <<Max(h0[1], h1[1]),
          IF h0[2] = None \/ h1[2] = None THEN None
          ELSE Some(Max(Unwrap(h0[2]), Unwrap(h1[2])))>>

\* ZipLongest::size_hint.
ZlSizeHint == ZlSizeHintOf(zlLeft, zlRight)

ZlIdle ==
    /\ zlA = << >>
    /\ zlB = << >>
    /\ zlLeft = << >>
    /\ zlRight = << >>
    /\ zlYielded = << >>
    /\ zlExhausted = FALSE

\* ------------------------------------------------------------------------
\* Accumulate
\*
\* f is any function of two elements, so its results are kept as terms: a
\* source element v is <<"e", v>> and f(a, b) is <<"f", a, b>>.
\* ------------------------------------------------------------------------
AcInit ==
    /\ acSrc \in SeqsUpTo({<<"e", v>> : v \in 0..AcMaxElem}, AcMaxLen)
    /\ acIter = acSrc
    /\ accum = None
    /\ acYielded = << >>
    /\ acExhausted = FALSE

\* A faulty AcApply: the arguments are swapped.
AcApplySwapped(a, rhs) == <<"f", rhs, a>>

\* (self.f)(accum, rhs)
AcApply(a, rhs) == <<"f", a, rhs>>

\* Accumulate::next.
AcNext ==
    /\ acIter' = ItRest(acIter)
    /\ IF accum = None
       THEN /\ accum' = ItNext(acIter)
            /\ acYielded' = acYielded \o ItNext(acIter)
            /\ acExhausted' = (acExhausted \/ ItNext(acIter) = None)
       ELSE IF ItNext(acIter) = None
            THEN /\ accum' = None
                 /\ acExhausted' = TRUE
                 /\ UNCHANGED acYielded
            ELSE /\ accum' = Some(AcApply(Unwrap(accum), Unwrap(ItNext(acIter))))
                 /\ acYielded' = Append(acYielded,
                                        AcApply(Unwrap(accum), Unwrap(ItNext(acIter))))
                 /\ UNCHANGED acExhausted
    /\ UNCHANGED acSrc

\* Accumulate::unwrap.
AcUnwrap == acIter

AcIdle ==
    /\ acSrc = << >>
    /\ acIter = << >>
    /\ accum = None
    /\ acYielded = << >>
    /\ acExhausted = FALSE

\* ------------------------------------------------------------------------
\* Stride
\*
\* stride(n) is modelled for n >= 1.
\* ------------------------------------------------------------------------
StInit ==
    /\ stSrc \in SeqsUpTo(0..StMaxElem, StMaxLen)
    /\ stride \in 1..StMaxStride
    /\ stIter = stSrc
    /\ stYielded = << >>
    /\ stExhausted = FALSE

\* A faulty StSkipCount: a whole stride is skipped after each element.
StSkipCountWhole == stride

\* The range of the skip loop: 0..(self.stride - 1).
StSkipCount == stride - 1

\* The skip loop from its round i on, iter being it: iter when it ends.
RECURSIVE StSkip(_, _, _)
StSkip(it, i, n) ==
    IF i >= n THEN it
    ELSE IF ItNext(it) = None THEN ItRest(it)
    ELSE StSkip(ItRest(it), i + 1, n)

\* Stride::next.
StNext ==
    /\ IF ItNext(stIter) = None
       THEN /\ stIter' = ItRest(stIter)
            /\ stExhausted' = TRUE
            /\ UNCHANGED stYielded
       ELSE /\ stIter' = StSkip(ItRest(stIter), 0, StSkipCount)
            /\ stYielded' = Append(stYielded, Unwrap(ItNext(stIter)))
            /\ UNCHANGED stExhausted
    /\ UNCHANGED <<stSrc, stride>>

\* Stride::size_hint with the field iter = it.
StSizeHintOf(it) ==
    LET h == ItSizeHint(it)
    IN  IF h[2] = None THEN <<h[1], None>>
        ELSE <<(h[1] + stride - 1) \div stride,
               Some((Unwrap(h[2]) + stride - 1) \div stride)>>

\* Stride::size_hint.
StSizeHint == StSizeHintOf(stIter)

StIdle ==
    /\ stSrc = << >>
    /\ stride = 1
    /\ stIter = << >>
    /\ stYielded = << >>
    /\ stExhausted = FALSE

\* ------------------------------------------------------------------------
\* Specifications: one adaptor under test at a time, the others idle.
\* ------------------------------------------------------------------------
teeOthers == <<gbVars, cpVars, pwVars, teVars, seVars, rrVars, isVars,
    ptVars, zlVars, acVars, stVars>>

gbOthers == <<teeVars, cpVars, pwVars, teVars, seVars, rrVars, isVars,
    ptVars, zlVars, acVars, stVars>>

cpOthers == <<teeVars, gbVars, pwVars, teVars, seVars, rrVars, isVars,
    ptVars, zlVars, acVars, stVars>>

pwOthers == <<teeVars, gbVars, cpVars, teVars, seVars, rrVars, isVars,
    ptVars, zlVars, acVars, stVars>>

teOthers == <<teeVars, gbVars, cpVars, pwVars, seVars, rrVars, isVars,
    ptVars, zlVars, acVars, stVars>>

seOthers == <<teeVars, gbVars, cpVars, pwVars, teVars, rrVars, isVars,
    ptVars, zlVars, acVars, stVars>>

rrOthers == <<teeVars, gbVars, cpVars, pwVars, teVars, seVars, isVars,
    ptVars, zlVars, acVars, stVars>>

isOthers == <<teeVars, gbVars, cpVars, pwVars, teVars, seVars, rrVars,
    ptVars, zlVars, acVars, stVars>>

ptOthers == <<teeVars, gbVars, cpVars, pwVars, teVars, seVars, rrVars,
    isVars, zlVars, acVars, stVars>>

zlOthers == <<teeVars, gbVars, cpVars, pwVars, teVars, seVars, rrVars,
    isVars, ptVars, acVars, stVars>>

acOthers == <<teeVars, gbVars, cpVars, pwVars, teVars, seVars, rrVars,
    isVars, ptVars, zlVars, stVars>>

stOthers == <<teeVars, gbVars, cpVars, pwVars, teVars, seVars, rrVars,
    isVars, ptVars, zlVars, acVars>>

InitTee == TeeInit /\ GbIdle /\ CpIdle /\ PwIdle /\ TeIdle /\ SeIdle
    /\ RrIdle /\ IsIdle /\ PtIdle /\ ZlIdle /\ AcIdle /\ StIdle

NextTee ==
    \/ \E h \in Handles : TeeNext(h) /\ UNCHANGED teeOthers
    \/ \E h \in Handles : TeeSizeHintCall(h) /\ UNCHANGED teeOthers

SpecTee == InitTee /\ [][NextTee]_vars

InitGroupBy == GbInit /\ TeeIdle /\ CpIdle /\ PwIdle /\ TeIdle /\ SeIdle
    /\ RrIdle /\ IsIdle /\ PtIdle /\ ZlIdle /\ AcIdle /\ StIdle

NextGroupBy ==
    \/ GbNext /\ UNCHANGED gbOthers
    \/ \E k \in 1..Len(groups) : GroupNext(k) /\ UNCHANGED gbOthers

SpecGroupBy == InitGroupBy /\ [][NextGroupBy]_vars

InitCartesianProduct == CpInit /\ TeeIdle /\ GbIdle /\ PwIdle /\ TeIdle
    /\ SeIdle /\ RrIdle /\ IsIdle /\ PtIdle /\ ZlIdle /\ AcIdle /\ StIdle

NextCartesianProduct ==
    \/ CpNext /\ UNCHANGED cpOthers
    \/ CpSizeHintCall /\ UNCHANGED cpOthers

SpecCartesianProduct == InitCartesianProduct /\ [][NextCartesianProduct]_vars

InitPacingWalk == PwInit /\ TeeIdle /\ GbIdle /\ CpIdle /\ TeIdle
    /\ SeIdle /\ RrIdle /\ IsIdle /\ PtIdle /\ ZlIdle /\ AcIdle /\ StIdle

NextPacingWalk == PwNext /\ UNCHANGED pwOthers

SpecPacingWalk == InitPacingWalk /\ [][NextPacingWalk]_vars

InitPacingWalkWide == PwInitWide /\ TeeIdle /\ GbIdle /\ CpIdle
    /\ TeIdle /\ SeIdle /\ RrIdle /\ IsIdle /\ PtIdle /\ ZlIdle
    /\ AcIdle /\ StIdle

NextPacingWalkWide == PwNext /\ UNCHANGED pwOthers

SpecPacingWalkWide == InitPacingWalkWide /\ [][NextPacingWalkWide]_vars

InitTakeExactly == TeInit /\ TeeIdle /\ GbIdle /\ CpIdle /\ PwIdle
    /\ SeIdle /\ RrIdle /\ IsIdle /\ PtIdle /\ ZlIdle /\ AcIdle /\ StIdle

NextTakeExactly == TeNext /\ UNCHANGED teOthers

SpecTakeExactly == InitTakeExactly /\ [][NextTakeExactly]_vars

InitSkipExactly == SeInit /\ TeeIdle /\ GbIdle /\ CpIdle /\ PwIdle
    /\ TeIdle /\ RrIdle /\ IsIdle /\ PtIdle /\ ZlIdle /\ AcIdle /\ StIdle

NextSkipExactly ==
    \/ SeSkipExactly /\ UNCHANGED seOthers
    \/ SeNext /\ UNCHANGED seOthers

SpecSkipExactly == InitSkipExactly /\ [][NextSkipExactly]_vars

InitRoundRobin == RrInit /\ TeeIdle /\ GbIdle /\ CpIdle /\ PwIdle
    /\ TeIdle /\ SeIdle /\ IsIdle /\ PtIdle /\ ZlIdle /\ AcIdle /\ StIdle

NextRoundRobin == RrNext /\ UNCHANGED rrOthers

SpecRoundRobin == InitRoundRobin /\ [][NextRoundRobin]_vars

InitRoundRobinLongest == RlInit /\ TeeIdle /\ GbIdle /\ CpIdle /\ PwIdle
    /\ TeIdle /\ SeIdle /\ IsIdle /\ PtIdle /\ ZlIdle /\ AcIdle /\ StIdle

NextRoundRobinLongest == RlNext /\ UNCHANGED rrOthers

SpecRoundRobinLongest == InitRoundRobinLongest /\ [][NextRoundRobinLongest]_vars

InitIntersperse == IsInit /\ TeeIdle /\ GbIdle /\ CpIdle /\ PwIdle
    /\ TeIdle /\ SeIdle /\ RrIdle /\ PtIdle /\ ZlIdle /\ AcIdle /\ StIdle

NextIntersperse ==
    \/ IsNext /\ UNCHANGED isOthers
    \/ \E i \in IsIndices : IsIdxCall(i) /\ UNCHANGED isOthers

SpecIntersperse == InitIntersperse /\ [][NextIntersperse]_vars

InitPadTailTo == PtInit /\ TeeIdle /\ GbIdle /\ CpIdle /\ PwIdle
    /\ TeIdle /\ SeIdle /\ RrIdle /\ IsIdle /\ ZlIdle /\ AcIdle /\ StIdle

NextPadTailTo == PtNext /\ UNCHANGED ptOthers

SpecPadTailTo == InitPadTailTo /\ [][NextPadTailTo]_vars

InitZipLongest == ZlInit /\ TeeIdle /\ GbIdle /\ CpIdle /\ PwIdle
    /\ TeIdle /\ SeIdle /\ RrIdle /\ IsIdle /\ PtIdle /\ AcIdle /\ StIdle

NextZipLongest == ZlNext /\ UNCHANGED zlOthers

SpecZipLongest == InitZipLongest /\ [][NextZipLongest]_vars

InitAccumulate == AcInit /\ TeeIdle /\ GbIdle /\ CpIdle /\ PwIdle
    /\ TeIdle /\ SeIdle /\ RrIdle /\ IsIdle /\ PtIdle /\ ZlIdle /\ StIdle

NextAccumulate == AcNext /\ UNCHANGED acOthers

SpecAccumulate == InitAccumulate /\ [][NextAccumulate]_vars

InitStride == StInit /\ TeeIdle /\ GbIdle /\ CpIdle /\ PwIdle /\ TeIdle
    /\ SeIdle /\ RrIdle /\ IsIdle /\ PtIdle /\ ZlIdle /\ AcIdle

NextStride == StNext /\ UNCHANGED stOthers

SpecStride == InitStride /\ [][NextStride]_vars

\* Tee or GroupBy with pulls in progress: a next() may stop inside its call
\* of the upstream, and until it goes on the sibling handles may be called
\* from there. A handle cannot be called while its own call is in progress.
InitReentrancy ==
    /\ \/ TeeInit /\ GbIdle
       \/ GbInitShort /\ TeeIdle
    /\ CpIdle /\ PwIdle /\ TeIdle /\ SeIdle /\ RrIdle /\ IsIdle
    /\ PtIdle /\ ZlIdle /\ AcIdle /\ StIdle

GbSibling(k) == IF gbActive = None THEN TRUE ELSE Unwrap(gbActive).who # k

NextReentrancy ==
    \/ \E h \in Handles :
          GbIdle /\ teeActive # Some(h) /\ TeeNext(h) /\ UNCHANGED teeOthers
    \/ \E h \in Handles :
          GbIdle /\ teeActive # Some(h) /\ TeeSizeHintCall(h)
              /\ UNCHANGED teeOthers
    \/ \E h \in Handles : GbIdle /\ TeeNextEnter(h) /\ UNCHANGED teeOthers
    \/ \E h \in Handles : GbIdle /\ TeeNextLeave(h) /\ UNCHANGED teeOthers
    \/ TeeIdle /\ GbSibling(0) /\ GbNext /\ UNCHANGED gbOthers
    \/ \E k \in 1..Len(groups) :
          TeeIdle /\ GbSibling(k) /\ GroupNext(k) /\ UNCHANGED gbOthers
    \/ TeeIdle /\ GbNextEnter /\ UNCHANGED gbOthers
    \/ TeeIdle /\ GbNextLeave /\ UNCHANGED gbOthers
    \/ \E k \in 1..Len(groups) :
          TeeIdle /\ GroupNextEnter(k) /\ UNCHANGED gbOthers
    \/ \E k \in 1..Len(groups) :
          TeeIdle /\ GroupNextLeave(k) /\ UNCHANGED gbOthers

SpecReentrancy == InitReentrancy /\ [][NextReentrancy]_vars

\* Stride or ZipLongest, whichever was constructed.
InitSizeBounds ==
    /\ \/ StInit /\ ZlIdle
       \/ ZlInit /\ StIdle
    /\ TeeIdle /\ GbIdle /\ CpIdle /\ PwIdle /\ TeIdle /\ SeIdle /\ RrIdle
    /\ IsIdle /\ PtIdle /\ AcIdle

NextSizeBounds ==
    \/ ZlIdle /\ StNext /\ UNCHANGED stOthers
    \/ StIdle /\ ZlNext /\ UNCHANGED zlOthers

SpecSizeBounds == InitSizeBounds /\ [][NextSizeBounds]_vars

\* ------------------------------------------------------------------------
\* Tee: properties
\* ------------------------------------------------------------------------

\* C1 (Tee replay equivalence): under every interleaving of next() calls on
\* the two handles, what a handle has yielded so far is a prefix of the
\* source, and a handle that has reported exhaustion has yielded exactly the
\* source, in order, each element once.
TeeReplayEquivalence ==
    \A h \in Handles :
        /\ IsPrefix(teeYielded[h], teeSrc)
        /\ teeExhausted[h] => teeYielded[h] = teeSrc

\* Both handles drained over a source of full length whose first two
\* elements differ.
TeeReplayWitness ==
    /\ Len(teeSrc) = TeeMaxLen
    /\ teeSrc[1] # teeSrc[2]
    /\ teeExhausted[0] /\ teeExhausted[1]
    /\ teeYielded[0] = teeSrc /\ teeYielded[1] = teeSrc

\* C2 (Tee bookkeeping): the produced count is the larger of the two consumed
\* counts, and the buffer holds exactly the elements the slower handle has
\* still to take.
TeeBookkeeping ==
    /\ iter_next = Max(this_next[0], this_next[1])
    /\ Len(buffer) = iter_next - Min(this_next[0], this_next[1])

\* Handle 1 leads by two elements after handle 0 has already popped one.
TeeBookkeepingWitness ==
    /\ this_next[0] = 1
    /\ this_next[1] = 3
    /\ Len(buffer) = 2

\* C12 (consistency failures unreachable): under every interleaving of
\* next() and size_hint() on the two handles, each call running to its end
\* before the next starts, no call has panicked, and no handle is behind
\* the upstream with the buffer empty or ahead of the upstream, so the next
\* call of either operation cannot panic either.
TeeNoPanic ==
    /\ teePanic = "none"
    /\ \A h \in Handles :
          /\ ~(this_next[h] < iter_next /\ Len(buffer) = 0)
          /\ ~(this_next[h] > iter_next)
          /\ TeeSizeHint(h).panic = "none"

\* size_hint() has just returned on a handle that is two elements behind
\* its sibling.
TeeNoPanicWitness ==
    /\ teePanic = "none"
    /\ IsSome(teeHint)
    /\ \E h \in Handles : /\ Unwrap(teeHint)[1] = h
                          /\ this_next[h] + 2 = iter_next
                          /\ this_next[1 - h] = iter_next

\* The elements handle h has still to yield.
TeeRemaining(h) == Len(teeSrc) - Len(teeYielded[h])

\* C14 (size estimate): size_hint() on a handle at the frontier is the
\* upstream's hint; on a lagging handle it is the upstream's lower and upper
\* bound, each plus the number of buffered elements; over an exact-size
\* upstream both bounds are the number of elements the handle has still to
\* yield. The hint the latest size_hint() call returned is that value.
TeeSizeHintExact ==
    /\ \A h \in Handles :
          /\ this_next[h] = iter_next =>
                TeeSizeHint(h).hint = ItSizeHint(teeIter)
          /\ this_next[h] < iter_next =>
                TeeSizeHint(h).hint =
                    <<ItSizeHint(teeIter)[1] + Len(buffer),
                      Some(Unwrap(ItSizeHint(teeIter)[2]) + Len(buffer))>>
          /\ TeeSizeHint(h).hint = <<TeeRemaining(h), Some(TeeRemaining(h))>>
    /\ IsSome(teeHint) =>
          Unwrap(teeHint)[2] = <<TeeRemaining(Unwrap(teeHint)[1]),
                                 Some(TeeRemaining(Unwrap(teeHint)[1]))>>

\* size_hint() on a handle that has yielded nothing, its sibling two
\* elements on and one element left upstream, has returned (3, Some(3)).
TeeSizeHintWitness ==
    /\ teeHint = Some(<<0, <<3, Some(3)>>>>)
    /\ this_next[0] = 0
    /\ iter_next = 2
    /\ Len(teeIter) = 1

\* ------------------------------------------------------------------------
\* GroupBy: properties
\* ------------------------------------------------------------------------

\* The runs of a source: maximal stretches of consecutive elements with the
\* same key, numbered from 1.  RunIdx(s, p) is the run of position p.
RunIdx(s, p) == 1 + Cardinality({q \in 2..p : GroupFn(s[q]) # GroupFn(s[q - 1])})
NumRuns(s) == IF s = << >> THEN 0 ELSE RunIdx(s, Len(s))
RunInSrc(e, r) == RunIdx(gbSrc, e[1]) = r
RunElems(s, r) == SelectSeq(s, LAMBDA e : RunIdx(s, e[1]) = r)
RunKeys(s) == [r \in 1..NumRuns(s) |-> GroupFn(Head(RunElems(s, r)))]

RECURSIVE Concat(_)
Concat(ss) == IF ss = << >> THEN << >> ELSE Head(ss) \o Concat(Tail(ss))

\* The consumer has only ever pulled the Group returned last, and none after
\* it reported exhaustion.
GbOneGroupAtATime == ~gbStale /\ ~gbRepulled

\* C3 (GroupBy run-partition completeness): for a consumer that drains every
\* Group before it pulls the outer iterator again, the k-th pair returned
\* carries the key of the k-th run and its Group yields that run's elements
\* in order; when the outer iterator reports exhaustion there is one pair
\* per run and the groups' elements concatenated are the source.
GbRunPartition ==
    (GbOneGroupAtATime /\ ~gbAbandoned) =>
        /\ Len(groups) <= NumRuns(gbSrc)
        /\ \A k \in 1..Len(groups) :
              /\ gbKeys[k] = RunKeys(gbSrc)[k]
              /\ IsPrefix(grpYielded[k], RunElems(gbSrc, k))
              /\ grpExhausted[k] => grpYielded[k] = RunElems(gbSrc, k)
        /\ gbOuterDone =>
              /\ gbKeys = RunKeys(gbSrc)
              /\ Concat(grpYielded) = gbSrc

\* A fully drained source of full length with three runs, the first key
\* coming back in the third.
GbRunPartitionWitness ==
    /\ GbOneGroupAtATime /\ ~gbAbandoned
    /\ gbOuterDone
    /\ Len(gbSrc) = GbMaxLen
    /\ gbKeys = <<0, 1, 0>>
    /\ \E k \in 1..Len(groups) : Len(grpYielded[k]) >= 2

\* C4 (GroupBy abandonment skip): whether each Group is drained, pulled a few
\* times or not pulled at all before the next outer pull, the k-th pair
\* returned carries the key of the k-th run and is seeded with that run's
\* first element, and at exhaustion there is exactly one pair per run.
GbAbandonmentSkip ==
    GbOneGroupAtATime =>
        /\ Len(groups) <= NumRuns(gbSrc)
        /\ \A k \in 1..Len(groups) :
              k <= NumRuns(gbSrc) =>
                  /\ gbKeys[k] = RunKeys(gbSrc)[k]
                  /\ grpSeed[k] = Head(RunElems(gbSrc, k))
        /\ gbOuterDone => Len(groups) = NumRuns(gbSrc)

\* C5 (abandoned runs are never replayed): no Group yields an element of the
\* run an earlier Group was handed out for.
GbNoReplay ==
    GbOneGroupAtATime =>
        \A k \in 1..Len(groups) : \A k2 \in (k + 1)..Len(groups) :
            \A i \in 1..Len(grpYielded[k2]) :
                ~RunInSrc(grpYielded[k2][i], RunIdx(gbSrc, grpSeed[k][1]))

\* C6 (single active group): a call of next() on a Group that is no longer
\* the latest one returned leaves the shared upstream where it was and
\* yields nothing outside that Group's own run.
GbSingleActiveGroup ==
    [][\A k \in 1..(Len(groups) - 1) :
          gbLast' = k =>
              /\ gbIter' = gbIter
              /\ \A i \in 1..Len(grpYielded'[k]) :
                    RunInSrc(grpYielded'[k][i], RunIdx(gbSrc, grpSeed[k][1]))]_vars

\* C13 (pushback exclusivity): no call replaces a pending (key, element)
\* pair in the shared push_back slot by another pair; a pending pair leaves
\* the slot only by being taken.
GbPushBackExclusive ==
    [][IsSome(push_back) /\ IsSome(push_back') => push_back' = push_back]_vars

\* ------------------------------------------------------------------------
\* Tee and GroupBy: re-entrancy
\* ------------------------------------------------------------------------

\* At most one mutable borrow of either shared state is alive, and one is
\* alive exactly while a pull is in progress.
OneBorrow ==
    /\ teeBorrow \in {0, 1}
    /\ gbBorrow \in {0, 1}
    /\ teeBorrow = 1 <=> IsSome(teeActive)
    /\ gbBorrow = 1 <=> IsSome(gbActive)

\* A call made on a sibling handle of Tee while a pull is in progress
\* panics and leaves the shared state and what was yielded alone.
TeeInnerCallAborts ==
    (IsSome(teeActive) /\ teeActive' = teeActive) =>
        /\ teePanic' = "already borrowed"
        /\ UNCHANGED <<teeIter, iter_next, buffer, this_next, teeYielded,
                       teeExhausted>>

\* A call made on a sibling handle of GroupBy while a pull is in progress
\* leaves the shared state alone, and either panics or is the pull of a
\* Group that hands out its own first value.
GbInnerCallAborts ==
    (IsSome(gbActive) /\ gbActive' = gbActive) =>
        /\ UNCHANGED <<gbIter, last_group, push_back>>
        /\ \/ /\ gbPanic' = "already borrowed"
              /\ UNCHANGED <<groups, gbKeys, grpYielded, grpExhausted>>
           \/ /\ gbPanic' = gbPanic
              /\ \E k \in 1..Len(groups) :
                    /\ IsSome(groups[k].first_value)
                    /\ groups' = [groups EXCEPT ![k].first_value = None]

\* C15 (re-entrancy detected): for Tee and for GroupBy at most one pull
\* holds the mutable borrow of the shared state at any time, and a pull
\* started on a sibling handle while a pull is in progress, if it needs the
\* shared state, panics without reading or changing the shared state and
\* without yielding anything.
ReentrancyDetected ==
    /\ []OneBorrow
    /\ [][TeeInnerCallAborts]_vars
    /\ [][GbInnerCallAborts]_vars

\* GroupBy::next is inside its call of the upstream, and the pull of a
\* Group that has handed out its first value has panicked there.
ReentrancyWitness ==
    /\ IsSome(gbActive)
    /\ Unwrap(gbActive).who = 0
    /\ gbPanic = "already borrowed"
    /\ groups # << >>

\* ------------------------------------------------------------------------
\* CartesianProduct: properties
\* ------------------------------------------------------------------------

\* The pairs (A[i], B[j]) in row-major order: i outer, j inner.
RowMajor(A, B) ==
    [x \in 1..(Len(A) * Len(B)) |->
        <<A[((x - 1) \div Len(B)) + 1], B[((x - 1) % Len(B)) + 1]>>]

\* C7 (row-major completeness): what next() has returned so far is a prefix
\* of the row-major pairs of the two inputs, and once next() has reported
\* exhaustion it has returned all Len(A) * Len(B) of them (none when either
\* input is empty).
CpRowMajorComplete ==
    /\ IsPrefix(cpYielded, RowMajor(cpLeftSrc, cpRightSrc))
    /\ cpExhausted => cpYielded = RowMajor(cpLeftSrc, cpRightSrc)

\* A product of a full-length left input and a right input of two or more
\* elements, run to exhaustion: the right input was restarted for each row.
CpRowMajorWitness ==
    /\ cpExhausted
    /\ Len(cpLeftSrc) = CpMaxLen
    /\ Len(cpRightSrc) >= 2
    /\ Len(cpYielded) = Len(cpLeftSrc) * Len(cpRightSrc)

\* The number of pairs still to come, by the rule of C8: with L left elements
\* remaining, R elements remaining in the current pass over the right input
\* and n elements in the checkpoint, L * n when no left value is held and
\* R + L * n when one is.
CpPairsLeft ==
    IF left_value = None THEN Len(left) * Len(right_checkpoint)
    ELSE Len(right) + Len(left) * Len(right_checkpoint)

\* C8 (size estimate): size_hint() reports the number of pairs still to be
\* yielded as both its lower and its upper bound.
CpSizeHintExact == CpSizeHint = <<CpPairsLeft, Some(CpPairsLeft)>>

\* ------------------------------------------------------------------------
\* PacingWalk: properties
\* ------------------------------------------------------------------------

\* C9 (permutation property): for start_at in 0..N, a walk that has reported
\* exhaustion has yielded each index of 0..N-1 exactly once, and its first
\* element is index start_at whenever start_at < N.
PwPermutation ==
    pwExhausted =>
        /\ Len(pwYielded) = pwLen
        /\ {pwYielded[i] : i \in 1..Len(pwYielded)} = 0..(pwLen - 1)
        /\ start_at < pwLen => pwYielded[1] = start_at

\* The order C10 describes: start_at, then start_at + d before start_at - d
\* for d = 1, 2, ..., leaving out what falls outside 0..N-1.
PacingOrder(n, s) ==
    SelectSeq([x \in 1..(2 * n + 1) |->
                  IF x = 1 THEN s
                  ELSE IF x % 2 = 0 THEN s + (x \div 2)
                  ELSE s - (x \div 2)],
              LAMBDA i : i >= 0 /\ i < n)

\* C10 (traversal order): for 0 <= start_at < N, what the walk has yielded
\* so far is a prefix of start_at, start_at+1, start_at-1, start_at+2,
\* start_at-2, ... clipped to 0..N-1, and a walk that has reported
\* exhaustion has yielded all of it.
PwTraversalOrder ==
    start_at < pwLen =>
        /\ IsPrefix(pwYielded, PacingOrder(pwLen, start_at))
        /\ pwExhausted => pwYielded = PacingOrder(pwLen, start_at)

\* The documented walk of five elements from index 1, run to exhaustion.
PwTraversalWitness ==
    /\ pwExhausted
    /\ pwLen = 5
    /\ start_at = 1
    /\ pwYielded = <<1, 2, 0, 3, 4>>

\* C11 (overflow policy): for every length N that usize can hold and every
\* start_at <= N, the step counter stays within usize, the stop position is
\* 2 * max(N - start_at, start_at) + 1 saturated at the maximum, no unchecked
\* operation of any step the next call goes through leaves 0..UsizeMax, and
\* a call entered with the counter at the maximum reports exhaustion and
\* leaves the counter where it is.
PwNoWrap ==
    /\ pos \in 0..UsizeMax
    /\ StopPos = Min(2 * Max(pwLen - start_at, start_at) + 1, UsizeMax)
    /\ \A p \in pos..PwNextFrom(pos).pos : PwUnchecked(p) \subseteq 0..UsizeMax
    /\ PwNextFrom(pos).pos \in pos..UsizeMax
    /\ pos = UsizeMax => PwNextFrom(pos) = [pos |-> UsizeMax, ret |-> None]

\* A walk whose stop position saturated: it ran its counter up to the
\* maximum and reported exhaustion there.
PwNoWrapWitness ==
    /\ 2 * Max(pwLen - start_at, start_at) + 1 > UsizeMax
    /\ pos = UsizeMax
    /\ pwExhausted

\* ------------------------------------------------------------------------
\* TakeExactly: properties
\* ------------------------------------------------------------------------

\* C16 (take_exactly): over a source of at least n elements no call panics,
\* what has been yielded is a prefix of the first n elements, size_hint()
\* is n minus the number yielded as both bounds, and once exhaustion is
\* reported the first n elements have been yielded and the source stands
\* right after them; over a shorter source exhaustion is never reported,
\* what is yielded is a prefix of the source, a pull made after the whole
\* source has been yielded panics, and a panic comes only then.
TeExactly ==
    /\ Len(teSrc) >= teN =>
          /\ tePanic = "none"
          /\ IsPrefix(teYielded, SubSeq(teSrc, 1, teN))
          /\ TeSizeHint = <<teN - Len(teYielded), Some(teN - Len(teYielded))>>
          /\ teExhausted =>
                /\ teYielded = SubSeq(teSrc, 1, teN)
                /\ teIter = SubSeq(teSrc, teN + 1, Len(teSrc))
    /\ Len(teSrc) < teN =>
          /\ ~teExhausted
          /\ IsPrefix(teYielded, teSrc)
          /\ tePanic # "none" => teYielded = teSrc
          /\ (tePanic = "none" /\ teYielded = teSrc) =>
                TeNextResult.panic # "none"

\* take_exactly(3) over two elements has yielded both and then panicked.
TeExactlyWitness ==
    /\ Len(teSrc) = 2
    /\ teN = 3
    /\ teYielded = teSrc
    /\ tePanic # "none"

\* ------------------------------------------------------------------------
\* skip_exactly: properties
\* ------------------------------------------------------------------------

\* C17 (skip_exactly): once skip_exactly(n) has been called on a source S,
\* if S has at least n elements the call has ended normally having consumed
\* exactly n of them, and the iterator it returned yields S[n..]: what it
\* has yielded followed by what it has left is S[n..], all of it yielded by
\* the time it reports exhaustion; if S has fewer than n elements the call
\* itself has panicked and nothing has been yielded.
SeExactly ==
    seCalled =>
        /\ Len(seSrc) >= seN =>
              /\ sePanic = "none"
              /\ seSkipped = seN
              /\ seYielded \o seIter = SubSeq(seSrc, seN + 1, Len(seSrc))
              /\ seExhausted => seYielded = SubSeq(seSrc, seN + 1, Len(seSrc))
        /\ Len(seSrc) < seN =>
              /\ sePanic # "none"
              /\ seYielded = << >>
              /\ ~seExhausted

\* skip_exactly(2) over three elements: the returned iterator has yielded
\* the third and reported exhaustion.
SeExactlyWitness ==
    /\ seCalled
    /\ Len(seSrc) = 3
    /\ seN = 2
    /\ seYielded = <<seSrc[3]>>
    /\ seExhausted

\* ------------------------------------------------------------------------
\* RoundRobin / RoundRobinLongest: properties
\* ------------------------------------------------------------------------

\* A[1], B[1], ..., A[k], B[k].
RrZip(A, B, k) ==
    [i \in 1..(2 * k) |-> IF i % 2 = 1 THEN A[(i + 1) \div 2] ELSE B[i \div 2]]

\* The alternation of A and B up to the first pull that finds its input
\* exhausted.
RrAlternation(A, B) ==
    IF Len(A) <= Len(B) THEN RrZip(A, B, Len(A))
    ELSE Append(RrZip(A, B, Len(B)), A[Len(B) + 1])

\* C18 (round_robin): what has been yielded is a prefix of A[0], B[0],
\* A[1], B[1], ... cut at the first pull whose input is exhausted; from the
\* first report of exhaustion on, whatever calls follow, what has been
\* yielded is exactly that sequence, so nothing of the other input is
\* yielded afterwards.
RrAlternates ==
    /\ IsPrefix(rrYielded, RrAlternation(rrA, rrB))
    /\ rrExhausted => rrYielded = RrAlternation(rrA, rrB)

\* A of two elements and B of four: exhaustion has been reported at the
\* third pull of A, four elements yielded, while B still holds two.
RrAlternatesWitness ==
    /\ Len(rrA) = 2
    /\ Len(rrB) = 4
    /\ rrExhausted
    /\ Len(rrYielded) = 4
    /\ Len(it1) = 2
    /\ phase = 0

\* The alternation of A and B while both have elements, then the rest of
\* the longer one.
RlInterleaving(A, B) ==
    LET k == Min(Len(A), Len(B))
    IN  RrZip(A, B, k) \o SubSeq(A, k + 1, Len(A)) \o SubSeq(B, k + 1, Len(B))

\* C19 (round_robin_longest): what has been yielded is a prefix of the
\* alternation A[0], B[0], ... over the common length followed by the rest
\* of the longer input in order, and when exhaustion is reported all of it,
\* m + n elements, has been yielded.
RlYieldsAll ==
    /\ IsPrefix(rrYielded, RlInterleaving(rrA, rrB))
    /\ rrExhausted =>
          /\ rrYielded = RlInterleaving(rrA, rrB)
          /\ Len(rrYielded) = Len(rrA) + Len(rrB)

\* A of one element and B of three, run to exhaustion: A[0], B[0], B[1],
\* B[2].
RlYieldsAllWitness ==
    /\ rrExhausted
    /\ fused
    /\ rrYielded = <<<<0, 1>>, <<1, 1>>, <<1, 2>>, <<1, 3>>>>

\* ------------------------------------------------------------------------
\* Intersperse: properties
\* ------------------------------------------------------------------------

\* S[0], x, S[1], x, ..., S[k-1]: 2k-1 values for k >= 1, none for k = 0.
Interspersed(S, x) ==
    [i \in 1..(IF Len(S) = 0 THEN 0 ELSE 2 * Len(S) - 1) |->
        IF i % 2 = 1 THEN <<"elem", S[(i + 1) \div 2]>> ELSE <<"inject", x>>]

\* C20 (intersperse): what has been yielded is a prefix of S[0], x, S[1],
\* x, ..., S[k-1]; when exhaustion is reported all of it has been yielded,
\* 2k-1 values for k >= 1 and nothing for k = 0; the first value yielded is
\* never the injected one, nor is the last one before exhaustion.
IsInterspersed ==
    /\ IsPrefix(isYielded, Interspersed(isSrc, inject))
    /\ isYielded # << >> => isYielded[1][1] = "elem"
    /\ isExhausted =>
          /\ isYielded = Interspersed(isSrc, inject)
          /\ Len(isYielded) = IF Len(isSrc) = 0 THEN 0 ELSE 2 * Len(isSrc) - 1
          /\ isYielded # << >> => isYielded[Len(isYielded)][1] = "elem"

\* Three elements, run to exhaustion: five values, the injected one second
\* and fourth.
IsInterspersedWitness ==
    /\ Len(isSrc) = 3
    /\ isExhausted
    /\ Len(isYielded) = 5
    /\ isYielded[2] = <<"inject", inject>>
    /\ isYielded[4] = <<"inject", inject>>

\* ------------------------------------------------------------------------
\* PadTailTo: properties
\* ------------------------------------------------------------------------

\* S, then filler(len), ..., filler(n-1) when len < n.
Padded(S, n) ==
    [i \in 1..Max(Len(S), n) |->
        IF i <= Len(S) THEN <<"elem", S[i]>> ELSE <<"filler", i - 1>>]

\* C21 (pad_tail_to): what has been yielded is a prefix of S followed by
\* filler(len), filler(len+1), ..., filler(n-1); when exhaustion is reported
\* all of it has been yielded, n values when len < n; when len >= n no value
\* yielded comes from the filler.
PtPadded ==
    /\ IsPrefix(ptYielded, Padded(ptSrc, ptMin))
    /\ ptExhausted =>
          /\ ptYielded = Padded(ptSrc, ptMin)
          /\ Len(ptSrc) < ptMin => Len(ptYielded) = ptMin
    /\ Len(ptSrc) >= ptMin =>
          \A i \in 1..Len(ptYielded) : ptYielded[i][1] = "elem"

\* Two elements padded to four, run to exhaustion: filler(2) and filler(3)
\* follow the source.
PtPaddedWitness ==
    /\ Len(ptSrc) = 2
    /\ ptMin = 4
    /\ ptExhausted
    /\ SubSeq(ptYielded, 3, 4) = <<<<"filler", 2>>, <<"filler", 3>>>>

\* ------------------------------------------------------------------------
\* ZipLongest: properties
\* ------------------------------------------------------------------------

\* The max(m, n) pairs of A and B, None standing in past the end of either.
ZippedLongest(A, B) ==
    [i \in 1..Max(Len(A), Len(B)) |->
        <<IF i <= Len(A) THEN Some(A[i]) ELSE None,
          IF i <= Len(B) THEN Some(B[i]) ELSE None>>]

\* C22 (zip_longest): the pairs yielded are a prefix of the max(m, n) pairs
\* (Some(A[i]) if i < m else None, Some(B[i]) if i < n else None); when
\* exhaustion is reported all max(m, n) of them have been yielded and both
\* inputs are exhausted.
ZlZipsLongest ==
    /\ IsPrefix(zlYielded, ZippedLongest(zlA, zlB))
    /\ zlExhausted =>
          /\ zlYielded = ZippedLongest(zlA, zlB)
          /\ Len(zlYielded) = Max(Len(zlA), Len(zlB))
          /\ zlLeft = << >>
          /\ zlRight = << >>

\* A of three elements and B of one, run to exhaustion: the last two pairs
\* have None on the right.
ZlZipsLongestWitness ==
    /\ Len(zlA) = 3
    /\ Len(zlB) = 1
    /\ zlExhausted
    /\ Len(zlYielded) = 3
    /\ zlYielded[3] = <<Some(zlA[3]), None>>

\* ------------------------------------------------------------------------
\* Accumulate: properties
\* ------------------------------------------------------------------------

\* f(...f(f(S[0], S[1]), S[2])..., S[k-1]), for k >= 1.
RECURSIVE LeftFold(_, _)
LeftFold(S, k) ==
    IF k = 1 THEN S[1] ELSE <<"f", LeftFold(S, k - 1), S[k]>>

\* C23 (accumulate): the k-th value yielded is the left fold by f of the
\* first k source elements, and after k values have been yielded unwrap()
\* is the source positioned at S[k..]: each successful next() has pulled
\* exactly one element.
AcLeftFolds ==
    /\ Len(acYielded) <= Len(acSrc)
    /\ \A k \in 1..Len(acYielded) : acYielded[k] = LeftFold(acSrc, k)
    /\ AcUnwrap = SubSeq(acSrc, Len(acYielded) + 1, Len(acSrc))
    /\ acExhausted => Len(acYielded) = Len(acSrc)

\* Three values yielded from a source of four: the third is
\* f(f(S[0], S[1]), S[2]) and the source stands at its last element.
AcLeftFoldsWitness ==
    /\ Len(acSrc) = 4
    /\ Len(acYielded) = 3
    /\ acYielded[3] = <<"f", <<"f", acSrc[1], acSrc[2]>>, acSrc[3]>>
    /\ AcUnwrap = <<acSrc[4]>>

\* ------------------------------------------------------------------------
\* Stride: properties
\* ------------------------------------------------------------------------

\* ceil(a / b) for b >= 1: the least q with q * b >= a.
CeilDiv(a, b) == CHOOSE q \in 0..a : q * b >= a /\ (q = 0 \/ (q - 1) * b < a)

\* S[0], S[n], S[2n], ...
Strided(S, n) == [i \in 1..CeilDiv(Len(S), n) |-> S[(i - 1) * n + 1]]

\* C24 (stride, n >= 1): what has been yielded is a prefix of S[0], S[n],
\* S[2n], ...; when exhaustion is reported all ceil(len / n) of them have
\* been yielded; size_hint() is ceil(r / n) as both bounds, r being the
\* number of source elements remaining.
StStrides ==
    /\ IsPrefix(stYielded, Strided(stSrc, stride))
    /\ stExhausted =>
          /\ stYielded = Strided(stSrc, stride)
          /\ Len(stYielded) = CeilDiv(Len(stSrc), stride)
    /\ StSizeHint = <<CeilDiv(Len(stIter), stride),
                      Some(CeilDiv(Len(stIter), stride))>>

\* stride(3) over four elements, run to exhaustion: the first and the
\* fourth.
StStridesWitness ==
    /\ Len(stSrc) = 4
    /\ stride = 3
    /\ stExhausted
    /\ stYielded = <<stSrc[1], stSrc[4]>>

\* ------------------------------------------------------------------------
\* Stride and ZipLongest: size bounds
\* ------------------------------------------------------------------------

\* The hint h, with k taken off both of its bounds.
HintLess(h, k) == <<h[1] - k, Some(Unwrap(h[2]) - k)>>

\* C25 (size bounds count down): for Stride and for ZipLongest over
\* exact-size sources, the bounds size_hint() reports after k successful
\* pulls are the bounds it reported before any pull, each less k, and both
\* are zero once exhaustion has been reported.
SizeBoundsCountDown ==
    /\ StSizeHint = HintLess(StSizeHintOf(stSrc), Len(stYielded))
    /\ stExhausted => StSizeHint = <<0, Some(0)>>
    /\ ZlSizeHint = HintLess(ZlSizeHintOf(zlA, zlB), Len(zlYielded))
    /\ zlExhausted => ZlSizeHint = <<0, Some(0)>>

\* Two pairs pulled from a zip of three elements with one: the hint has
\* gone from (3, Some(3)) to (1, Some(1)).
SizeBoundsWitness ==
    /\ Len(zlA) = 3
    /\ Len(zlB) = 1
    /\ Len(zlYielded) = 2
    /\ ZlSizeHintOf(zlA, zlB) = <<3, Some(3)>>
    /\ ZlSizeHint = <<1, Some(1)>>

\* ------------------------------------------------------------------------
\* GroupBy: the push-back hand-over
\* ------------------------------------------------------------------------

\* C26 (pushback hand-over): a pair enters the empty push_back slot only by
\* a Group's next() that pulled an element of another key, the pair being
\* that key and that element and the Group reporting exhaustion; a pending
\* pair stays in the slot until the next GroupBy::next, which returns its
\* key with a Group seeded with its element, empties the slot and leaves
\* the upstream where it was.
GbHandOver ==
    [][/\ (push_back = None /\ IsSome(push_back')) =>
              /\ gbLast' \in 1..Len(groups)
              /\ gbIter # << >>
              /\ push_back' = Some(<<GroupFn(Head(gbIter)), Head(gbIter)>>)
              /\ GroupFn(Head(gbIter)) # groups[gbLast'].group_value
              /\ grpExhausted'[gbLast']
       /\ IsSome(push_back) =>
              \/ /\ Len(groups') = Len(groups)
                 /\ push_back' = push_back
              \/ /\ Len(groups') = Len(groups) + 1
                 /\ gbKeys'[Len(groups')] = Unwrap(push_back)[1]
                 /\ groups'[Len(groups')].first_value =
                        Some(Unwrap(push_back)[2])
                 /\ push_back' = None
                 /\ gbIter' = gbIter]_vars

\* ------------------------------------------------------------------------
\* PacingWalk: the step arithmetic
\* ------------------------------------------------------------------------

\* The index start_at moved by m, to the left at an even step p and to the
\* right at an odd one.
Jittered(p, m) == IF p % 2 = 0 THEN start_at - m ELSE start_at + m

\* The step at which the value just returned was taken: self.pos is one past
\* it.
YieldedAt(p) == pwYielded' # pwYielded /\ pos' = p + 1

\* C27 as stated (step arithmetic, magnitude rounded up): the index yielded
\* at step pos is start_at - ceil((pos+1)/2) for even pos and
\* start_at + ceil((pos+1)/2) for odd pos.
PwStepRoundedUp ==
    [][\A p \in 0..StopPos :
          YieldedAt(p) =>
              pwYielded'[Len(pwYielded')] = Jittered(p, CeilDiv(p + 1, 2))]_vars

\* C27 (step arithmetic, magnitude rounded down): the index yielded at step
\* pos is start_at - floor((pos+1)/2) for even pos and
\* start_at + floor((pos+1)/2) for odd pos; step 0 yields start_at itself.
PwStepRoundedDown ==
    [][\A p \in 0..StopPos :
          YieldedAt(p) =>
              pwYielded'[Len(pwYielded')] = Jittered(p, (p + 1) \div 2)]_vars

\* Three steps from index 2: step 0 yields 2, the odd step 1 yields 3 to
\* its right, the even step 2 yields 1 to its left.
PwStepWitness ==
    /\ start_at = 2
    /\ pos = 3
    /\ pwYielded = <<2, 3, 1>>

\* N - 1, N - 2, ..., 0
LeftWalk(N) == [i \in 1..N |-> N - i]

\* C28 (start_at = N is a pure left-walk): started at the length N > 0 of
\* the sequence, the walk yields N-1, N-2, ..., 0 in that order and reports
\* exhaustion only after all of them.
PwLeftWalk ==
    (pwLen > 0 /\ start_at = pwLen) =>
        /\ IsPrefix(pwYielded, LeftWalk(pwLen))
        /\ pwExhausted => pwYielded = LeftWalk(pwLen)

\* ------------------------------------------------------------------------
\* CartesianProduct: the checkpoint and the left pulls
\* ------------------------------------------------------------------------

\* s is what is left of t after some of its first elements.
IsSuffix(s, t) ==
    /\ Len(s) <= Len(t)
    /\ s = SubSeq(t, Len(t) - Len(s) + 1, Len(t))

\* C29 (checkpoint invariant): in every state the checkpoint is the right
\* sequence as passed at construction, whatever calls of next() and
\* size_hint() were made, and the right cursor is a suffix of it; a next()
\* that finds the right cursor exhausted with a left value held starts the
\* next row from the whole checkpoint with the next left element, or, the
\* left sequence being consumed, returns None with the cursor a copy of the
\* checkpoint and no left value held.
CpCheckpoint ==
    /\ [](/\ right_checkpoint = cpRightSrc
          /\ IsSuffix(right, right_checkpoint))
    /\ [][(IsSome(left_value) /\ right = << >> /\ cpHint' = None) =>
              IF left = << >>
              THEN /\ left_value' = None
                   /\ right' = right_checkpoint
                   /\ cpYielded' = cpYielded
                   /\ cpExhausted'
              ELSE /\ right_checkpoint # << >>
                   /\ left_value' = Some(Head(left))
                   /\ right' = Tail(right_checkpoint)
                   /\ cpYielded' =
                          Append(cpYielded,
                                 <<Head(left), Head(right_checkpoint)>>)]_vars

\* The second row of a product with two columns has been started, and
\* size_hint() called after that.
CpCheckpointWitness ==
    /\ Len(cpRightSrc) = 2
    /\ Len(cpYielded) = 3
    /\ right = Tail(right_checkpoint)
    /\ left_value = Some(cpLeftSrc[2])
    /\ IsSome(cpHint)

\* C30 (termination and lazy left pulls): a call of next() returns after at
\* most one call of left.next() per left element not yet pulled and one
\* more; it calls left.next() only if no left value is held or the right
\* cursor is exhausted; the left elements are pulled in order, each once,
\* the value held being the one pulled last; exhaustion is reported only
\* with the left sequence consumed; and with an empty right sequence no pair
\* is ever returned and the first next() consumes the left sequence and
\* reports exhaustion.
CpLazyLeft ==
    /\ [](/\ IsSuffix(left, cpLeftSrc)
          /\ IsSome(left_value) =>
                 /\ Len(left) < Len(cpLeftSrc)
                 /\ left_value = Some(cpLeftSrc[Len(cpLeftSrc) - Len(left)])
          /\ cpExhausted => left = << >>
          /\ cpRightSrc = << >> => cpYielded = << >>)
    /\ [][cpHint' = None =>
              /\ cpPulls' <= Len(left) + 1
              /\ cpPulls' = (Len(left) - Len(left'))
                                + (IF cpYielded' = cpYielded THEN 1 ELSE 0)
              /\ (IsSome(left_value) /\ right # << >>) => cpPulls' = 0
              /\ cpRightSrc = << >> => cpExhausted' /\ left' = << >>]_vars

\* One call of next() on an empty right sequence has gone through a left
\* sequence of two or more elements and reported exhaustion.
CpLazyLeftWitness ==
    /\ cpRightSrc = << >>
    /\ Len(cpLeftSrc) >= 2
    /\ cpPulls = Len(cpLeftSrc) + 1
    /\ cpExhausted
    /\ cpYielded = << >>

\* ------------------------------------------------------------------------
\* Tee: lazy upstream pulls
\* ------------------------------------------------------------------------

\* C31 (Tee pulls upstream lazily, once per element): the number of elements
\* taken from the upstream is iter_next and is the larger of the two
\* handles' positions; a call that returns an element to a handle at the
\* frontier takes exactly that element from the upstream and buffers it, a
\* call that returns an element to a lagging handle pops the buffer front
\* and leaves the upstream and iter_next alone; the upstream moves in no
\* other step; and a call that returns no element (the upstream being
\* exhausted) leaves both positions, iter_next, the buffer and the upstream
\* as they were.
TeeLazyPull ==
    /\ [](/\ Len(teeSrc) - Len(teeIter) = iter_next
          /\ iter_next = Max(this_next[0], this_next[1]))
    /\ [][/\ \A h \in Handles :
                teeYielded'[h] # teeYielded[h] =>
                    /\ this_next'[h] = this_next[h] + 1
                    /\ this_next'[1 - h] = this_next[1 - h]
                    /\ IF this_next[h] = iter_next
                       THEN /\ teeIter # << >>
                            /\ teeIter' = Tail(teeIter)
                            /\ iter_next' = iter_next + 1
                            /\ buffer' = Append(buffer, Head(teeIter))
                            /\ teeYielded'[h] =
                                   Append(teeYielded[h], Head(teeIter))
                       ELSE /\ teeIter' = teeIter
                            /\ iter_next' = iter_next
                            /\ buffer' = Tail(buffer)
                            /\ teeYielded'[h] =
                                   Append(teeYielded[h], Head(buffer))
          /\ teeYielded' = teeYielded =>
                /\ UNCHANGED <<this_next, iter_next, buffer, teeIter>>
          /\ \A h \in Handles :
                (teeExhausted'[h] /\ ~teeExhausted[h]) =>
                    /\ teeIter = << >>
                    /\ this_next[h] = iter_next
                    /\ teeYielded' = teeYielded]_vars

\* Handle 0 has taken three elements from the upstream, handle 1 has popped
\* two of them from the buffer, and handle 0 has then found the upstream
\* exhausted.
TeeLazyPullWitness ==
    /\ this_next = [h \in Handles |-> IF h = 0 THEN 3 ELSE 2]
    /\ Len(buffer) = 1
    /\ teeExhausted[0]
    /\ ~teeExhausted[1]

\* ------------------------------------------------------------------------
\* Intersperse: random access
\* ------------------------------------------------------------------------

\* What repeated next() still yields: S[0], x, S[1], x, ... less what has
\* been yielded of it.
IsRemaining ==
    SubSeq(Interspersed(isSrc, inject), Len(isYielded) + 1,
           Len(Interspersed(isSrc, inject)))

\* C32 (random access agrees with sequential pulls): after any number of
\* next() calls what has been yielded is a prefix of the interspersed
\* sequence, indexable() is the number of values still to come, idx(i) is
\* the (i+1)-th of them for i < indexable() and None for i >= indexable(),
\* and a call of idx leaves the sequential position as it was.
IsRandomAccess ==
    /\ [](/\ IsPrefix(isYielded, Interspersed(isSrc, inject))
          /\ IsIndexable = Len(IsRemaining)
          /\ \A i \in IsIndices :
                IsIdx(i) = IF i < IsIndexable THEN Some(IsRemaining[i + 1])
                           ELSE None
          /\ IsSome(isIdxed) =>
                Unwrap(isIdxed)[2] = IsIdx(Unwrap(isIdxed)[1]))
    /\ [][IsSome(isIdxed') =>
              UNCHANGED <<isIter, look_ahead, next_is_inject, isYielded,
                          isExhausted>>]_vars

\* The state of the module's test after two next() calls on three elements:
\* idx(1) returns the injected value and three values are indexable.
IsRandomAccessWitness ==
    /\ Len(isSrc) = 3
    /\ Len(isYielded) = 2
    /\ IsIndexable = 3
    /\ isIdxed = Some(<<1, Some(<<"inject", inject>>)>>)

\* ------------------------------------------------------------------------
\* PacingWalk: termination
\* ------------------------------------------------------------------------

\* C33 (termination and stop position): the step counter never exceeds
\* 2 * max(start_at, N - start_at) + 1; a call of next() only moves it
\* forward, through however many skipped steps, and returns at most one
\* element, taken at the last step it went through; and once exhaustion
\* has been reported a call reports it again and leaves the counter where
\* it is.
PwTerminates ==
    /\ [](pos <= 2 * Max(start_at, pwLen - start_at) + 1)
    /\ [][/\ pos' >= pos
          /\ pos' <= 2 * Max(start_at, pwLen - start_at) + 1
          /\ Len(pwYielded') <= Len(pwYielded) + 1
          /\ pwYielded' # pwYielded => pos' > pos
          /\ pwExhausted =>
                /\ PwNextFrom(pos) = [pos |-> pos, ret |-> None]
                /\ pos' = pos
                /\ pwYielded' = pwYielded
                /\ pwExhausted']_vars

\* Three elements walked from index 0: the last call skipped the three
\* steps left of the stop position 7 and reported exhaustion there.
PwTerminatesWitness ==
    /\ pwLen = 3
    /\ start_at = 0
    /\ pwYielded = <<0, 1, 2>>
    /\ pos = 7
    /\ pwExhausted

\* ------------------------------------------------------------------------
\* GroupBy: the last key, fused Groups, size bounds
\* ------------------------------------------------------------------------

\* C34 (last-key invariant): every GroupBy::next that returns a pair, from
\* the push-back slot or from the upstream, leaves last_group equal to the
\* key of the pair it returns.
GbLastKey ==
    [][Len(groups') = Len(groups) + 1 =>
           last_group' = Some(gbKeys'[Len(gbKeys')])]_vars

\* C35 (Group is fused): a call of next() on a Group that has reported
\* exhaustion reports it again: the Group yields nothing more, the upstream
\* stays where it was and the push_back slot is left as it was.
GbGroupFused ==
    [][\A k \in 1..Len(groups) :
          (grpExhausted[k] /\ gbLast' = k) =>
              /\ grpYielded'[k] = grpYielded[k]
              /\ gbIter' = gbIter
              /\ push_back' = push_back]_vars

\* The number n lies within the bounds of the hint h.
Within(n, h) == h[1] <= n /\ (IsSome(h[2]) => n <= Unwrap(h[2]))

\* How many pairs GroupBy::next returns when called until it returns None,
\* from the upstream it, the push-back slot pb and the last key lg, no Group
\* being pulled in between.
RECURSIVE GbPairsLeft(_, _, _)
GbPairsLeft(it, pb, lg) ==
    IF IsSome(pb) THEN 1 + GbPairsLeft(it, None, lg)
    ELSE LET it2 == IF lg = None THEN it ELSE GbSkip(it, Unwrap(lg))
         IN  IF it2 = << >> THEN 0
             ELSE 1 + GbPairsLeft(Tail(it2), None, Some(GroupFn(Head(it2))))

\* How many of the first elements of it have the key g.
RECURSIVE RunLength(_, _)
RunLength(it, g) ==
    IF it = << >> THEN 0
    ELSE IF GroupFn(Head(it)) # g THEN 0
    ELSE 1 + RunLength(Tail(it), g)

\* How many elements the k-th Group returns when called until it returns
\* None.
GrpElemsLeft(k) ==
    (IF IsSome(groups[k].first_value) THEN 1 ELSE 0)
        + RunLength(gbIter, groups[k].group_value)

\* C36 (GroupBy size bounds are valid): in every state the number of pairs
\* the outer iterator still yields lies within the bounds of its
\* size_hint(), and the number of elements each Group still yields lies
\* within the bounds of that Group's size_hint().
GbSizeHintValid ==
    /\ Within(GbPairsLeft(gbIter, push_back, last_group), GbSizeHint)
    /\ \A k \in 1..Len(groups) : Within(GrpElemsLeft(k), GroupSizeHint(k))

\* ------------------------------------------------------------------------
\* PacingWalk, RoundRobin, Intersperse: size bounds
\* ------------------------------------------------------------------------

\* C37 (PacingWalk size bounds are valid): started inside the sequence, the
\* walk that has yielded k of the N elements reports bounds with the N - k
\* elements still to come within them.
PwSizeHintValid ==
    start_at < pwLen => Within(pwLen - Len(pwYielded), PwSizeHint)

\* How many elements RoundRobin::next returns when called until it returns
\* None, from the inputs i0 and i1 in phase ph.
RECURSIVE RrLeft(_, _, _)
RrLeft(i0, i1, ph) ==
    IF ph = 0
    THEN IF i0 = << >> THEN 0 ELSE 1 + RrLeft(Tail(i0), i1, 1)
    ELSE IF i1 = << >> THEN 0 ELSE 1 + RrLeft(i0, Tail(i1), 0)

\* C38 (round_robin size bounds are valid): in either phase the number of
\* elements round_robin still yields lies within the bounds of its
\* size_hint(), and the lower bound does not exceed the upper one.
RrSizeHintValid ==
    /\ Within(RrLeft(it0, it1, phase), RrSizeHint)
    /\ IsSome(RrSizeHint[2]) => RrSizeHint[1] <= Unwrap(RrSizeHint[2])

\* C39 (intersperse size bounds are valid): after any number of next()
\* calls, none included, the number of values intersperse still yields lies
\* within the bounds of its size_hint().
IsSizeHintValid == Within(Len(IsRemaining), IsSizeHint)


====
